---------------------------- MODULE Spec2Model ----------------------------
(***************************************************************************)
(* Model of koishi-plugin-image-selector: the save command (quota          *)
(* resolution, exact-mode target lookup, item loop), and the read path     *)
(* (processImageRequest behind the message middleware: prefix-mode alias   *)
(* resolution, repeat-count parsing, random picker).                       *)
(*                                                                         *)
(* Strings of the program are modelled as sequences of one-character       *)
(* strings, so that startsWith, split, trim, the regular expressions and   *)
(* parseInt are computed rather than assumed.                              *)
(***************************************************************************)
EXTENDS Integers, Sequences, FiniteSets, TLC

(***************************************************************************)
(* Bounds of the model.                                                    *)
(***************************************************************************)
\* total number of rows in the two quota rule tables
MaxRows == 3

(***************************************************************************)
(* JavaScript values that can sit in a quota row or come out of a          *)
(* dictionary lookup.  t is the tag, v the numeric value when t = "number".*)
(***************************************************************************)
JsNum(n) == [t |-> "number", v |-> n]
Undefined == [t |-> "undefined", v |-> 0]
Null == [t |-> "null", v |-> 0]
NaN == [t |-> "nan", v |-> 0]
JsStr == [t |-> "string", v |-> 0]
JsFunction == [t |-> "function", v |-> 0]

\* typeof x
TypeOf(x) == IF x.t = "nan" THEN "number" ELSE IF x.t = "null" THEN "object" ELSE x.t

\* Names that every object literal {} inherits from Object.prototype; a
\* lookup dict[key] with such a key and no own property yields the inherited
\* member, not undefined.  One representative is enough for the model.
ObjectPrototypeKeys == {"constructor"}

(***************************************************************************)
(* Quota resolution (save command, "检查权限和尺寸限制").                  *)
(***************************************************************************)
\* BuildLimitsDict keeping the first row of an id
RECURSIVE BuildLimitsDict_FirstWins(_)
BuildLimitsDict_FirstWins(rows) ==
  IF rows = <<>> THEN <<>>
  ELSE LET front == BuildLimitsDict_FirstWins(SubSeq(rows, 1, Len(rows) - 1))
           item == rows[Len(rows)]
       IN IF item.sizeLimit # Undefined /\ item.id \notin DOMAIN front
          THEN [k \in (DOMAIN front) \cup {item.id} |->
                  IF k = item.id THEN item.sizeLimit ELSE front[k]]
          ELSE front

\* for (const item of limits) if (item.id !== undefined && item.sizeLimit
\* !== undefined) dict[item.id] = item.sizeLimit  -- later rows overwrite.
RECURSIVE BuildLimitsDict(_)
BuildLimitsDict(rows) ==
  IF rows = <<>> THEN <<>>
  ELSE LET front == BuildLimitsDict(SubSeq(rows, 1, Len(rows) - 1))
           item == rows[Len(rows)]
       IN IF item.sizeLimit # Undefined
          THEN [k \in (DOMAIN front) \cup {item.id} |->
                  IF k = item.id THEN item.sizeLimit ELSE front[k]]
          ELSE front

\* dict[key] on an object created by the literal {}
DictGet(dict, key) ==
  IF key \in DOMAIN dict THEN dict[key]
  ELSE IF key \in ObjectPrototypeKeys THEN JsFunction
  ELSE Undefined

\* guildId && ... : an absent guild id (undefined) and "" are both falsy
Truthy(s) == s # ""

\* the five lookup steps; the result may still be an invalid value
LookupLimit(userId, guildId, userLimits, groupLimits) ==
  LET ud == BuildLimitsDict(userLimits)
      gd == BuildLimitsDict(groupLimits)
      l1 == IF DictGet(ud, userId) # Undefined THEN DictGet(ud, userId) ELSE Undefined
      l2 == IF l1 = Undefined /\ Truthy(guildId) /\ DictGet(gd, guildId) # Undefined
            THEN DictGet(gd, guildId) ELSE l1
      l3 == IF l2 = Undefined /\ Truthy(guildId) /\ DictGet(gd, "default") # Undefined
            THEN DictGet(gd, "default") ELSE l2
      l4 == IF l3 = Undefined THEN DictGet(ud, "default") ELSE l3
      l5 == IF l4 = Undefined \/ l4 = Null THEN JsNum(0) ELSE l4
  IN l5

\* CoerceLimit converting a string to the number it spells (5 in the model)
CoerceLimit_StringsConverted(limit) ==
  IF limit.t = "string" THEN 5
  ELSE IF TypeOf(limit) # "number" \/ (limit.t = "number" /\ limit.v < 0) \/ limit.t = "nan"
  THEN 0 ELSE limit.v

\* if (typeof limit !== 'number' || limit < 0 || isNaN(limit)) limit = 0
CoerceLimit(limit) ==
  IF TypeOf(limit) # "number" \/ (limit.t = "number" /\ limit.v < 0) \/ limit.t = "nan"
  THEN 0 ELSE limit.v

\* sizeLimitMB of the save command
ResolveLimit(userId, guildId, userLimits, groupLimits) ==
  CoerceLimit(LookupLimit(userId, guildId, userLimits, groupLimits))


(***************************************************************************)
(* String primitives (String.prototype.startsWith / slice / trim / split,  *)
(* RegExp tests, parseInt, String(n)) over sequences of characters.        *)
(***************************************************************************)
Digits == {"0", "1", "2", "3", "4", "5", "6", "7", "8", "9"}

SetMin(S) == CHOOSE x \in S : \A y \in S : x <= y
SetMax(S) == CHOOSE x \in S : \A y \in S : x >= y

\* StartsWith refusing the empty prefix
StartsWith_NonEmpty(s, p) == p # <<>> /\ Len(p) <= Len(s) /\ SubSeq(s, 1, Len(p)) = p

\* input.startsWith(alias)
StartsWith(s, p) == Len(p) <= Len(s) /\ SubSeq(s, 1, Len(p)) = p

\* s.endsWith(p)
EndsWith(s, p) == Len(p) <= Len(s) /\ SubSeq(s, Len(s) - Len(p) + 1, Len(s)) = p

\* input.slice(n)
Slice(s, n) == SubSeq(s, n + 1, Len(s))

\* s.trim()
Trim(s) ==
  LET keep == {i \in 1..Len(s) : s[i] # " "}
  IN IF keep = {} THEN <<>> ELSE SubSeq(s, SetMin(keep), SetMax(keep))

\* folderName.split('-')
RECURSIVE Split(_)
Split(s) ==
  LET at == {i \in 1..Len(s) : s[i] = "-"}
  IN IF at = {} THEN <<s>>
     ELSE <<SubSeq(s, 1, SetMin(at) - 1)>> \o Split(Slice(s, SetMin(at)))

\* aliases.includes(keyword)
Includes(seq, x) == \E i \in 1..Len(seq) : seq[i] = x

\* /^\d+$/.test(s)
IsDigits(s) == Len(s) > 0 /\ \A i \in 1..Len(s) : s[i] \in Digits

DigitVal(c) ==
  CASE c = "0" -> 0 [] c = "1" -> 1 [] c = "2" -> 2 [] c = "3" -> 3 [] c = "4" -> 4
    [] c = "5" -> 5 [] c = "6" -> 6 [] c = "7" -> 7 [] c = "8" -> 8 [] c = "9" -> 9

DigitChar(d) ==
  CASE d = 0 -> "0" [] d = 1 -> "1" [] d = 2 -> "2" [] d = 3 -> "3" [] d = 4 -> "4"
    [] d = 5 -> "5" [] d = 6 -> "6" [] d = 7 -> "7" [] d = 8 -> "8" [] d = 9 -> "9"

\* value of a string of decimal digits
RECURSIVE DecimalValue(_)
DecimalValue(s) ==
  IF s = <<>> THEN 0
  ELSE DecimalValue(SubSeq(s, 1, Len(s) - 1)) * 10 + DigitVal(s[Len(s)])

\* parseInt(s, 10) on a string without leading white space: an optional sign,
\* then the longest run of digits; NaN when that run is empty.
ParseInt(s) ==
  LET signed == Len(s) > 0 /\ s[1] \in {"-", "+"}
      body == IF signed THEN Slice(s, 1) ELSE s
      stop == {i \in 1..Len(body) : body[i] \notin Digits}
      run == IF stop = {} THEN body ELSE SubSeq(body, 1, SetMin(stop) - 1)
  IN IF run = <<>> THEN NaN
     ELSE IF signed /\ s[1] = "-" THEN JsNum(0 - DecimalValue(run))
     ELSE JsNum(DecimalValue(run))

\* String(n) for an integer n
RECURSIVE NatToString(_)
NatToString(n) ==
  IF n < 10 THEN <<DigitChar(n)>> ELSE NatToString(n \div 10) \o <<DigitChar(n % 10)>>

NumberToString(n) == IF n < 0 THEN <<"-">> \o NatToString(0 - n) ELSE NatToString(n)

\* Math.min(a, b)
MathMin(a, b) == IF a <= b THEN a ELSE b

\* c.toLowerCase() for the letters that occur in the media extensions (the /i flag)
LowerChar(c) ==
  CASE c = "A" -> "a" [] c = "B" -> "b" [] c = "E" -> "e" [] c = "F" -> "f"
    [] c = "G" -> "g" [] c = "I" -> "i" [] c = "J" -> "j" [] c = "M" -> "m"
    [] c = "N" -> "n" [] c = "O" -> "o" [] c = "P" -> "p" [] c = "T" -> "t"
    [] c = "V" -> "v" [] c = "W" -> "w" [] c = "4" -> "4" [] OTHER -> c

Lower(s) == [i \in 1..Len(s) |-> LowerChar(s[i])]

\* /\.(e1|e2|...)$/i.test(file)
HasExtension(file, exts) == \E e \in exts : EndsWith(Lower(file), <<".">> \o e)

\* jpe?g|png|gif|webp|mp4|mov|avi|bmp|tiff?
MediaExtensions ==
  { <<"j","p","g">>, <<"j","p","e","g">>, <<"p","n","g">>, <<"g","i","f">>,
    <<"w","e","b","p">>, <<"m","p","4">>, <<"m","o","v">>, <<"a","v","i">>,
    <<"b","m","p">>, <<"t","i","f">>, <<"t","i","f","f">> }

\* mp4|mov|avi
VideoExtensions == { <<"m","p","4">>, <<"m","o","v">>, <<"a","v","i">> }

IsMediaFile(file) == HasExtension(file, MediaExtensions)

IsVideo(file) == HasExtension(file, VideoExtensions)


(***************************************************************************)
(* Prefix-mode resolution and repeat count (processImageRequest).          *)
(* A directory entry is [name, isDirectory, files]; a match is             *)
(* [folderName, alias, suffix, aliasLength].                               *)
(***************************************************************************)
\* MatchesOfFolder accepting an alias found anywhere in the input
MatchesOfFolder_Anywhere(folderName, input) ==
  LET aliases == Split(folderName)
      all == [i \in 1..Len(aliases) |->
                [folderName |-> folderName, alias |-> aliases[i],
                 suffix |-> Trim(Slice(input, Len(aliases[i]))),
                 aliasLength |-> Len(aliases[i])]]
  IN SelectSeq(all, LAMBDA m :
       \E lo \in 1..Len(input) + 1 :
         lo + Len(m.alias) - 1 <= Len(input)
           /\ SubSeq(input, lo, lo + Len(m.alias) - 1) = m.alias)

\* MatchesOfFolder keyed by the first segment of the name only
MatchesOfFolder_PrimaryOnly(folderName, input) ==
  LET aliases == SubSeq(Split(folderName), 1, 1)
      all == [i \in 1..Len(aliases) |->
                [folderName |-> folderName, alias |-> aliases[i],
                 suffix |-> Trim(Slice(input, Len(aliases[i]))),
                 aliasLength |-> Len(aliases[i])]]
  IN SelectSeq(all, LAMBDA m : StartsWith(input, m.alias))

\* the inner loop: for (const alias of aliases) if (input.startsWith(alias)) push
MatchesOfFolder(folderName, input) ==
  LET aliases == Split(folderName)
      all == [i \in 1..Len(aliases) |->
                [folderName |-> folderName, alias |-> aliases[i],
                 suffix |-> Trim(Slice(input, Len(aliases[i]))),
                 aliasLength |-> Len(aliases[i])]]
  IN SelectSeq(all, LAMBDA m : StartsWith(input, m.alias))

\* PossibleMatches over an index built once, from the listing z-a, in place
\* of the listing of the request
PossibleMatches_StartupIndex(folders, input) ==
  MatchesOfFolder(<<"z","-","a">>, input)

\* PossibleMatches without the isDirectory test
RECURSIVE PossibleMatches_AnyEntry(_, _)
PossibleMatches_AnyEntry(folders, input) ==
  IF folders = <<>> THEN <<>>
  ELSE MatchesOfFolder(Head(folders).name, input)
       \o PossibleMatches_AnyEntry(Tail(folders), input)

\* the outer loop over the listing, skipping entries that are not directories
RECURSIVE PossibleMatches(_, _)
PossibleMatches(folders, input) ==
  IF folders = <<>> THEN <<>>
  ELSE (IF Head(folders).isDirectory
        THEN MatchesOfFolder(Head(folders).name, input) ELSE <<>>)
       \o PossibleMatches(Tail(folders), input)

\* possibleMatches.sort((a, b) => b.aliasLength - a.aliasLength), a stable sort
RECURSIVE SortFrom(_, _)
SortFrom(ms, len) ==
  IF len < 0 THEN <<>>
  ELSE SelectSeq(ms, LAMBDA m : m.aliasLength = len) \o SortFrom(ms, len - 1)

SortByAliasLength(ms) ==
  IF ms = <<>> THEN <<>>
  ELSE SortFrom(ms, SetMax({ms[i].aliasLength : i \in 1..Len(ms)}))

\* BestMatches without the sort: the first match found is taken as the best
BestMatches_Unsorted(ms) ==
  SelectSeq(ms, LAMBDA m : m.aliasLength = ms[1].aliasLength /\ m.alias = ms[1].alias)

\* bestMatch = sorted[0]; bestMatches = those with its length and its alias
BestMatches(ms) ==
  LET sorted == SortByAliasLength(ms)
      bestMatch == sorted[1]
  IN SelectSeq(sorted, LAMBDA m : m.aliasLength = bestMatch.aliasLength
                                   /\ m.alias = bestMatch.alias)

\* CollisionWarning naming only the folder that was selected
CollisionWarning_SelectedOnly(selectedMatch, bestMatches) ==
  [alias |-> selectedMatch.alias, n |-> Len(bestMatches),
   folders |-> <<selectedMatch.folderName>>]

\* the text of ctx.logger.warn: the alias, the number of matches, their folders
CollisionWarning(selectedMatch, bestMatches) ==
  [alias |-> selectedMatch.alias, n |-> Len(bestMatches),
   folders |-> [i \in 1..Len(bestMatches) |-> bestMatches[i].folderName]]

\* config.maxout is a Schema.number(): any number, whole or not.  The numbers
\* of the read path (maxout, count) are held in halves, so Unit is the number 1
\* and 5 the number 2.5; min and the comparisons are those of the numbers.
Unit == 2

\* "解析数量" of processImageRequest
ParseCount(suffix, maxout) ==
  LET parsed == IF suffix # <<>>
                THEN (IF IsDigits(suffix)
                      THEN MathMin(Unit * DecimalValue(suffix), maxout) ELSE Unit)
                ELSE Unit
  IN IF parsed > maxout THEN maxout ELSE parsed

\* "解析数量" of the earlier middleware (src/index.ts)
ParseCountLegacy(suffix, maxout) ==
  LET parsed == ParseInt(suffix)
      count == IF suffix # <<>>
               THEN (IF parsed.t = "number" /\ parsed.v > 0
                        /\ NumberToString(parsed.v) = suffix
                     THEN Unit * parsed.v
                     ELSE IF IsDigits(suffix)
                          THEN MathMin(Unit * DecimalValue(suffix), maxout) ELSE Unit)
               ELSE Unit
  IN IF count > maxout THEN maxout ELSE count

\* files.filter(file => /\.(jpe?g|...)$/i.test(file))
\* MediaFiles without the extension filter
MediaFiles_Unfiltered(files) == files

MediaFiles(files) == SelectSeq(files, IsMediaFile)

\* h.video(filePath) or h.image(filePath)
MediaElement(folderName, file) ==
  [kind |-> IF IsVideo(file) THEN "video" ELSE "image",
   folderName |-> folderName, file |-> file]


(***************************************************************************)
(* Save command: exact-mode target lookup, file extension, file name.      *)
(***************************************************************************)
\* MatchedFolders with the prefix test of the read path in place of includes
RECURSIVE MatchedFolders_Prefix(_, _)
MatchedFolders_Prefix(folders, keyword) ==
  IF folders = <<>> THEN <<>>
  ELSE (IF Head(folders).isDirectory
           /\ \E k \in 1..Len(Split(Head(folders).name)) :
                StartsWith(Split(Head(folders).name)[k], keyword)
        THEN <<Head(folders).name>> ELSE <<>>)
       \o MatchedFolders_Prefix(Tail(folders), keyword)

\* matchedFolders: the directories one of whose segments is the keyword
RECURSIVE MatchedFolders(_, _)
MatchedFolders(folders, keyword) ==
  IF folders = <<>> THEN <<>>
  ELSE (IF Head(folders).isDirectory /\ Includes(Split(Head(folders).name), keyword)
        THEN <<Head(folders).name>> ELSE <<>>)
       \o MatchedFolders(Tail(folders), keyword)

\* getFileExtension(file, imgType): the MIME table, then the element type
GetFileExtension(mimeType, imgType) ==
  CASE mimeType = "image/jpeg" -> <<".","j","p","g">>
    [] mimeType = "image/png" -> <<".","p","n","g">>
    [] mimeType = "image/gif" -> <<".","g","i","f">>
    [] mimeType = "image/webp" -> <<".","w","e","b","p">>
    [] mimeType = "image/bmp" -> <<".","b","m","p">>
    [] mimeType = "video/mp4" -> <<".","m","p","4">>
    [] mimeType = "video/quicktime" -> <<".","m","o","v">>
    [] mimeType = "video/x-msvideo" -> <<".","a","v","i">>
    [] OTHER -> IF imgType = "video" THEN <<".","m","p","4">> ELSE <<".","j","p","g">>

\* the replacement text of String.prototype.replace: $$ is a dollar sign and
\* $& the matched text; the model's values hold no other $-pattern
RECURSIVE ExpandReplacement(_, _)
ExpandReplacement(rep, matched) ==
  IF rep = <<>> THEN <<>>
  ELSE IF Len(rep) >= 2 /\ rep[1] = "$" /\ rep[2] = "$"
       THEN <<"$">> \o ExpandReplacement(Slice(rep, 2), matched)
  ELSE IF Len(rep) >= 2 /\ rep[1] = "$" /\ rep[2] = "&"
       THEN matched \o ExpandReplacement(Slice(rep, 2), matched)
  ELSE <<rep[1]>> \o ExpandReplacement(Tail(rep), matched)

\* s.replace(/pat/g, rep) for a pattern that is a literal text
RECURSIVE ReplaceAll(_, _, _)
ReplaceAll(s, pat, rep) ==
  IF Len(s) < Len(pat) THEN s
  ELSE IF StartsWith(s, pat)
       THEN ExpandReplacement(rep, pat) \o ReplaceAll(Slice(s, Len(pat)), pat, rep)
  ELSE <<s[1]>> \o ReplaceAll(Tail(s), pat, rep)

Placeholder(name) == <<"$", "{">> \o name \o <<"}">>

Pad2(n) == <<DigitChar(n \div 10), DigitChar(n % 10)>>

\* now.toISOString().split('T')[0], for timestamps within January 1970
DateOf(timestamp) ==
  <<"1","9","7","0","-","0","1","-">> \o Pad2(1 + timestamp \div (24 * 60 * 60 * 1000))

\* now.toTimeString().split(' ')[0].replace(/:/g, '-'), in a UTC process
TimeOf(timestamp) ==
  LET seconds == (timestamp \div 1000) % (24 * 60 * 60)
  IN Pad2(seconds \div 3600) \o <<"-">> \o Pad2((seconds \div 60) % 60)
       \o <<"-">> \o Pad2(seconds % 60)

\* x || fallback for a string x
OrElse(x, fallback) == IF x = <<>> THEN fallback ELSE x

Unknown == <<"u","n","k","n","o","w","n">>
Private == <<"p","r","i","v","a","t","e">>

\* the chain of nine replace calls on config.filenameTemplate
SubstituteTemplate(template, session, timestamp, index, ext) ==
  LET r1 == ReplaceAll(template, Placeholder(<<"u","s","e","r","I","d">>),
                       OrElse(session.userId, Unknown))
      r2 == ReplaceAll(r1, Placeholder(<<"u","s","e","r","n","a","m","e">>),
                       OrElse(session.username, Unknown))
      r3 == ReplaceAll(r2, Placeholder(<<"t","i","m","e","s","t","a","m","p">>),
                       NumberToString(timestamp))
      r4 == ReplaceAll(r3, Placeholder(<<"d","a","t","e">>), DateOf(timestamp))
      r5 == ReplaceAll(r4, Placeholder(<<"t","i","m","e">>), TimeOf(timestamp))
      r6 == ReplaceAll(r5, Placeholder(<<"i","n","d","e","x">>), NumberToString(index))
      r7 == ReplaceAll(r6, Placeholder(<<"e","x","t">>), ext)
      r8 == ReplaceAll(r7, Placeholder(<<"g","u","i","l","d","I","d">>),
                       OrElse(session.guildId, Private))
      r9 == ReplaceAll(r8, Placeholder(<<"c","h","a","n","n","e","l","I","d">>),
                       OrElse(session.channelId, Unknown))
  IN r9

\* [\u0000-\u001f\u007f-\u009f\/\\:*?"<>|]; \n and \t stand for the control range
ReservedChars == {"\n", "\t", "/", "\\", ":", "*", "?", "\"", "<", ">", "|"}

\* Sanitize without the g flag: only the first reserved character is replaced
Sanitize_FirstOnly(name) ==
  [k \in 1..Len(name) |->
     IF name[k] \in ReservedChars /\ \A j \in 1..k - 1 : name[j] \notin ReservedChars
     THEN "_" ELSE name[k]]

\* filename.replace(/[...]/g, '_')
Sanitize(name) == [k \in 1..Len(name) |-> IF name[k] \in ReservedChars THEN "_" ELSE name[k]]

RenderFilename(template, session, timestamp, index, ext) ==
  Sanitize(SubstituteTemplate(template, session, timestamp, index, ext))

\* join(targetPath, filename) names a file inside targetPath unless the name
\* is empty or a dot segment, which name a directory
NamesAFile(filename) == filename \notin {<<>>, <<".">>, <<".", ".">>}

(***************************************************************************)
(* State.                                                                  *)
(***************************************************************************)
VARIABLES
  \* configuration and file system
  maxout,          \* config.maxout
  imageDir,        \* listing of config.imagePath: entries [name, isDirectory, files]
  \* one read request (middleware + processImageRequest)
  rpc,             \* position: idle, readdir, readFolder, sendEmpty, sending, done
  input,           \* session.stripped.content.trim()
  bestMatches,     \* bestMatches of the request, <<>> before resolution
  selectedMatch,   \* selectedMatch, NoSelection before resolution
  count,           \* count
  mediaFiles,      \* mediaFiles of the selected folder
  sendIndex,       \* i of the send loop
  sent,            \* what session.send delivered, in order
  processed,       \* return value of processImageRequest: "none", "true", "false"
  caught,          \* the error the catch block received: "none" or the failed call
  nextCalls,       \* number of calls of next() for the message
  listed,          \* folders whose files the request listed
  warnings,        \* ctx.logger.warn lines of the request
  served,          \* history: folders selected so far while an alias collided
  \* quota resolution applied to one identity and one pair of tables
  qpc, qUserId, qGuildId, qUserLimits, qGroupLimits, qLimit,
  \* configuration and file system of the save command
  saveFailFallback,  \* config.saveFailFallback
  userLimits,        \* config.userLimits
  groupLimits,       \* config.groupLimits
  filenameTemplate,  \* config.filenameTemplate
  tempDir,           \* config.tempPath: [exists, files]
  \* one save request
  session,           \* [userId, guildId, username, channelId]
  save,              \* locals of the action: pc, keyword, allImages, limit,
                     \* targetPath, matched, folderName, savedCount, i,
                     \* baseTimestamp, file, returned; prompts is the
                     \* history of the session.prompt results
  notices,           \* texts session.send delivered during the request
  outcomes,          \* history: what became of each item the loop has passed
  written,           \* history: fs.writeFile calls that succeeded
  fsCalls,           \* history: fs.readdir / fs.mkdir / fs.writeFile calls of
                     \* the request, each with whether it resolved
  \* the naming of one file, applied to one template and one context
  render             \* [pc, template, session, timestamp, index, ext, substituted
                     \*  (filename before the sanitizing replace), filename]

readVars == <<rpc, input, bestMatches, selectedMatch, count, mediaFiles, sendIndex,
              sent, processed, caught, nextCalls, listed, warnings, served>>
quotaVars == <<qpc, qUserId, qGuildId, qUserLimits, qGroupLimits, qLimit>>
configVars == <<maxout, imageDir>>
saveConfigVars == <<saveFailFallback, userLimits, groupLimits, filenameTemplate>>
saveVars == <<saveConfigVars, tempDir, session, save, notices, outcomes, written, fsCalls>>
renderVars == <<render>>
vars == <<configVars, readVars, quotaVars, saveVars, renderVars>>

(***************************************************************************)
(* Inputs of the model: file names, directory listings, message texts.     *)
(***************************************************************************)
\* longest message text drawn from InputAlphabet
MaxInputLen == 3
\* largest configured maxout (the smallest is -1); every half in between is
\* configured too
MaxMaxout == 3

\* Schema.number().default(5) of maxout
DefaultMaxout == 5

InputAlphabet == {"a", "b", " ", "0", "2", "7"}

\* texts quoted by the specification that lie outside InputAlphabet
ExampleInputs ==
  { <<"m","t","2">>, <<"m","t">>, <<"a","7","x">>, <<"m","t"," ","7">>, <<"y">> }

Inputs == (UNION {[1..n -> InputAlphabet] : n \in 0..MaxInputLen}) \cup ExampleInputs

File1Jpg == <<"1",".","j","p","g">>
File2PNG == <<"2",".","P","N","G">>
File3Gif == <<"3",".","g","i","f">>
FileVMp4 == <<"v",".","M","p","4">>
FileCMov == <<"c",".","m","o","v">>
FileNTxt == <<"n",".","t","x","t">>
FileJpg  == <<"j","p","g">>
FileMp4x == <<"w",".","m","p","4","x">>

Dir(name, files) == [name |-> name, isDirectory |-> TRUE, files |-> files]
PlainFile(name) == [name |-> name, isDirectory |-> FALSE, files |-> <<>>]

NameXA   == <<"x","-","a">>
NameYA   == <<"y","-","a">>
NameCatMt == <<"c","a","t","-","m","t">>
NameA    == <<"a">>
NameAbB  == <<"a","b","-","b">>
NameA2   == <<"a","2","-","x">>
NameBA   == <<"b","-","a">>
NameAA   == <<"a","-","a">>
NameBEmpty == <<"b","-">>
NameZB   == <<"z","-","b">>
NameBQ   == <<"b","-","q">>

\* the listings of config.imagePath the model starts from
DirConfigs ==
  { <<>>,
    << Dir(NameXA, <<File1Jpg>>), Dir(NameYA, <<File2PNG, FileVMp4>>) >>,
    << Dir(NameCatMt, <<File1Jpg, File2PNG, File3Gif>>), PlainFile(NameBQ) >>,
    << Dir(NameA, <<File1Jpg, FileCMov>>), Dir(NameAbB, <<FileVMp4, FileNTxt>>),
       PlainFile(NameBA), Dir(NameA2, <<File3Gif>>) >>,
    << Dir(NameAA, <<File1Jpg>>), Dir(NameBEmpty, <<File2PNG>>) >>,
    << Dir(NameZB, <<FileNTxt, FileJpg, FileMp4x>>), Dir(NameXA, <<FileCMov>>) >> }

NoSelection == [folderName |-> <<>>, alias |-> <<>>, suffix |-> <<>>, aliasLength |-> -1]

\* the files of a folder of the listing; the folder is there when FolderExists
FolderExists(dir, folderName) ==
  \E k \in 1..Len(dir) : dir[k].isDirectory /\ dir[k].name = folderName

FilesOf(dir, folderName) ==
  dir[CHOOSE k \in 1..Len(dir) : dir[k].isDirectory /\ dir[k].name = folderName].files


(***************************************************************************)
(* The save command.  Each action is the code between two awaits; an       *)
(* awaited call inside the try block that can throw has a second action    *)
(* for the throw, which lands in the catch block.                          *)
(***************************************************************************)
\* most items in one save request
MaxItems == 2

Message(kind, n, text) == [kind |-> kind, count |-> n, text |-> text]
NoMessage == Message("none", 0, <<>>)

\* a media element of the request: its src/url attribute and its type
Items == [hasUrl : BOOLEAN, type : {"img"}] \cup [hasUrl : {TRUE}, type : {"video"}]
ItemLists == UNION {[1..n -> Items] : n \in 0..MaxItems}

\* what ctx.http.file(url) does: throws, or resolves without data, or with
\* data of some byte length and declared MIME type
FetchResults ==
  [status : {"throw", "nodata"}, size : {0}, mime : {""}]
    \cup [status : {"data"}, size : {2 * 1024 * 1024}, mime : {"image/png"}]
    \cup [status : {"data"}, size : {2 * 1024 * 1024 + 1, 5 * 512 * 1024}, mime : {""}]

NoFile == [status |-> "none", size |-> 0, mime |-> ""]

\* the identities that issue the command
Sessions ==
  { [userId |-> "u1", guildId |-> "g1", username |-> <<"A">>, channelId |-> <<"c">>],
    [userId |-> "u2", guildId |-> "g1", username |-> <<>>, channelId |-> <<"c">>],
    [userId |-> "u2", guildId |-> "", username |-> <<"B">>, channelId |-> <<>>] }

NoSession == [userId |-> "", guildId |-> "", username |-> <<>>, channelId |-> <<>>]

\* the characters of an id
IdText(id) ==
  CASE id = "u1" -> <<"u","1">> [] id = "u2" -> <<"u","2">>
    [] id = "g1" -> <<"g","1">> [] OTHER -> <<>>

SessionText(ss) ==
  [userId |-> IdText(ss.userId), guildId |-> IdText(ss.guildId),
   username |-> ss.username, channelId |-> ss.channelId]

\* the keyword argument of the command; <<>> is a missing keyword
KeywordArgs ==
  { <<>>, <<"a">>, <<"b">>, <<"a","b">>, <<"a","b","c">>, <<"y","-","a">>, <<"d">>,
    <<"y">> }
\* the replies to the keyword prompt; <<>> is no reply within the timeout
KeywordReplies == { <<>>, <<" ","a"," ">>, <<" "," ">>, <<"d">> }

\* "${date}-${time}-${index}-${guildId}-${userId}${ext}"
DefaultTemplate ==
  Placeholder(<<"d","a","t","e">>) \o <<"-">> \o Placeholder(<<"t","i","m","e">>)
    \o <<"-">> \o Placeholder(<<"i","n","d","e","x">>)
    \o <<"-">> \o Placeholder(<<"g","u","i","l","d","I","d">>)
    \o <<"-">> \o Placeholder(<<"u","s","e","r","I","d">>)
    \o Placeholder(<<"e","x","t">>)

Templates == { DefaultTemplate, <<"p">> \o Placeholder(<<"e","x","t">>) }

NameAQ  == <<"a","-","q">>
NameXAb == <<"x","-","a","b">>
NameYAB == <<"y","-","a","-","b">>
NameZA  == <<"z","-","a">>

\* the listings of config.imagePath the save command starts from
SaveDirConfigs ==
  { << PlainFile(NameAQ), Dir(NameXAb, <<>>), Dir(NameYAB, <<File1Jpg>>),
       Dir(NameZA, <<>>), Dir(NameBEmpty, <<>>) >>,
    << Dir(NameZA, <<>>), Dir(NameYAB, <<>>) >> }

\* the rule tables: the schema default, and user u1 5 MB with group default 2 MB
LimitConfigs ==
  { [user |-> << [id |-> "default", sizeLimit |-> JsNum(0)] >>,
     group |-> << [id |-> "default", sizeLimit |-> JsNum(0)] >>],
    [user |-> << [id |-> "u1", sizeLimit |-> JsNum(5)] >>,
     group |-> << [id |-> "default", sizeLimit |-> JsNum(2)] >>] }

TempPath == [root |-> "temp", folder |-> <<>>]
CollectionPath(folderName) == [root |-> "image", folder |-> folderName]

SaveIdle ==
  [pc |-> "idle", keyword |-> <<>>, allImages |-> <<>>, limit |-> 0,
   targetPath |-> TempPath, matched |-> FALSE, folderName |-> <<>>,
   savedCount |-> 0, i |-> 0, baseTimestamp |-> 0, file |-> NoFile,
   prompts |-> <<>>, returned |-> NoMessage]

RenderOff ==
  [pc |-> "off", template |-> <<>>, session |-> SessionText(NoSession), timestamp |-> 0,
   index |-> 1, ext |-> <<>>, substituted |-> <<>>, filename |-> <<>>]

RenderInert == render = RenderOff

SaveInert ==
  /\ saveFailFallback = TRUE /\ userLimits = <<>> /\ groupLimits = <<>>
  /\ filenameTemplate = <<>> /\ tempDir = [exists |-> FALSE, files |-> <<>>]
  /\ session = NoSession /\ save = SaveIdle /\ notices = <<>> /\ outcomes = <<>>
  /\ written = <<>> /\ fsCalls = <<>>

\* return <message> from the action
Return(sv, message) == [sv EXCEPT !.pc = "done", !.returned = message]

\* AfterKeyword denying only below 0
AfterKeyword_DenyNegativeOnly(sv, ss, keyword) ==
  LET limit == ResolveLimit(ss.userId, ss.guildId, userLimits, groupLimits)
      next == [sv EXCEPT !.keyword = keyword, !.limit = limit]
  IN IF limit < 0 THEN [next EXCEPT !.pc = "done", !.returned = [kind |-> "denied", count |-> 0, text |-> <<>>]]
     ELSE IF keyword # <<>> THEN [next EXCEPT !.pc = "readdir"]
     ELSE [next EXCEPT !.pc = "mkdir"]

\* the quota block and the deny check, reached with the keyword settled
AfterKeyword(sv, ss, keyword) ==
  LET limit == ResolveLimit(ss.userId, ss.guildId, userLimits, groupLimits)
      next == [sv EXCEPT !.keyword = keyword, !.limit = limit]
  IN IF limit <= 0 THEN Return(next, Message("denied", 0, <<>>))
     ELSE IF keyword # <<>> THEN [next EXCEPT !.pc = "readdir"]
     ELSE [next EXCEPT !.pc = "mkdir"]

\* the keyword check, reached with a non-empty allImages
AfterImages(sv, ss, images) ==
  LET next == [sv EXCEPT !.allImages = images]
  IN IF sv.keyword = <<>> THEN [next EXCEPT !.pc = "promptKeyword"]
     ELSE AfterKeyword(next, ss, sv.keyword)

KeywordPrompt == <<"k","e","y","w","o","r","d","?">>
ImagePrompt == <<"i","m","a","g","e","?">>

\* session.prompt has resolved, with a reply or (undefined) by timeout
Prompted(sv, result) == [sv EXCEPT !.prompts = Append(@, result)]

\* the action up to its first await
SaveCommand ==
  /\ save.pc = "idle"
  /\ \E ss \in Sessions, keyword \in KeywordArgs, images \in ItemLists :
       /\ session' = ss
       /\ IF images = <<>>
          THEN /\ save' = [save EXCEPT !.keyword = keyword, !.pc = "promptImages"]
               /\ notices' = Append(notices, ImagePrompt)
          ELSE /\ save' = AfterImages([save EXCEPT !.keyword = keyword], ss, images)
               /\ notices' = IF keyword = <<>>
                             THEN Append(notices, KeywordPrompt) ELSE notices
  /\ UNCHANGED <<saveConfigVars, tempDir, outcomes, written, fsCalls, imageDir, maxout,
                 readVars, quotaVars, renderVars>>

\* session.prompt for the images resolves; no reply returns, a reply without
\* media returns, otherwise the keyword check follows
ImagesReply ==
  /\ save.pc = "promptImages"
  /\ \E images \in ItemLists, replied \in BOOLEAN :
       IF ~replied
       THEN /\ save' = Return(Prompted(save, "timeout"), Message("noImage", 0, <<>>))
            /\ UNCHANGED notices
       ELSE IF images = <<>>
            THEN /\ save' = Return(Prompted(save, "reply"), Message("noValidImage", 0, <<>>))
                 /\ UNCHANGED notices
            ELSE /\ save' = AfterImages(Prompted(save, "reply"), session, images)
                 /\ notices' = IF save.keyword = <<>>
                               THEN Append(notices, KeywordPrompt) ELSE notices
  /\ UNCHANGED <<saveConfigVars, tempDir, session, outcomes, written, fsCalls, imageDir,
                 maxout, readVars, quotaVars, renderVars>>

\* KeywordReply going on without a keyword when the wait expires
KeywordReply_TimeoutGoesOn ==
  /\ save.pc = "promptKeyword"
  /\ \E reply \in KeywordReplies :
       save' = IF reply = <<>>
               THEN AfterKeyword(Prompted(save, "timeout"), session, <<>>)
               ELSE AfterKeyword(Prompted(save, "reply"), session, Trim(reply))
  /\ UNCHANGED <<saveConfigVars, tempDir, session, notices, outcomes, written, fsCalls,
                 imageDir, maxout, readVars, quotaVars, renderVars>>

\* session.prompt for the keyword resolves; keyword = reply.trim()
KeywordReply ==
  /\ save.pc = "promptKeyword"
  /\ \E reply \in KeywordReplies :
       save' = IF reply = <<>>
               THEN Return(Prompted(save, "timeout"), Message("timeout", 0, <<>>))
               ELSE AfterKeyword(Prompted(save, "reply"), session, Trim(reply))
  /\ UNCHANGED <<saveConfigVars, tempDir, session, notices, outcomes, written, fsCalls,
                 imageDir, maxout, readVars, quotaVars, renderVars>>

\* one call of the fs module
FsCall(call, path, ok) == [call |-> call, path |-> path, ok |-> ok]

\* fs.readdir(config.imagePath) resolves: exact match, first folder wins
FindTarget ==
  /\ save.pc = "readdir"
  /\ fsCalls' = Append(fsCalls, FsCall("readdir", CollectionPath(<<>>), TRUE))
  /\ LET matchedFolders == MatchedFolders(imageDir, save.keyword)
     IN save' = IF matchedFolders # <<>>
                THEN [save EXCEPT !.folderName = matchedFolders[1],
                                  !.targetPath = CollectionPath(matchedFolders[1]),
                                  !.matched = TRUE, !.pc = "mkdir"]
                ELSE IF ~saveFailFallback
                     THEN Return(save, Message("cancelled", 0, save.keyword))
                     ELSE [save EXCEPT !.pc = "mkdir"]
  /\ UNCHANGED <<saveConfigVars, tempDir, session, notices, outcomes, written, imageDir,
                 maxout, readVars, quotaVars, renderVars>>

\* fs.readdir(config.imagePath) rejects
FindTargetFails ==
  /\ save.pc = "readdir"
  /\ save' = Return(save, Message("failed", 0, <<"readdir">>))
  /\ fsCalls' = Append(fsCalls, FsCall("readdir", CollectionPath(<<>>), FALSE))
  /\ UNCHANGED <<saveConfigVars, tempDir, session, notices, outcomes, written, imageDir,
                 maxout, readVars, quotaVars, renderVars>>

\* the loop from item i up to the next await: items without a url are passed
\* over; past the last item the action returns its result message
NextWithUrl(images, i) ==
  SetMin({j \in i..Len(images) : images[j].hasUrl} \cup {Len(images) + 1})

\* LoopFrom reporting every result as saved to the folder
LoopFrom_AlwaysSaved(sv, i) ==
  LET j == NextWithUrl(sv.allImages, i)
  IN IF j <= Len(sv.allImages)
     THEN [sv EXCEPT !.pc = "fetch", !.i = j, !.file = NoFile]
     ELSE Return([sv EXCEPT !.i = j, !.file = NoFile],
                 Message("saved", sv.savedCount, sv.folderName))

LoopFrom(sv, i) ==
  LET j == NextWithUrl(sv.allImages, i)
  IN IF j <= Len(sv.allImages)
     THEN [sv EXCEPT !.pc = "fetch", !.i = j, !.file = NoFile]
     ELSE Return([sv EXCEPT !.i = j, !.file = NoFile],
                 IF sv.matched THEN Message("saved", sv.savedCount, sv.folderName)
                 ELSE Message("fallback", sv.savedCount, sv.keyword))

PassedOver(sv, i) ==
  [k \in 1..(NextWithUrl(sv.allImages, i) - i) |-> "skipped-no-url"]

\* fs.mkdir(targetPath, { recursive: true }) resolves; Date.now(); loop entry
EnsureTarget ==
  /\ save.pc = "mkdir"
  /\ fsCalls' = Append(fsCalls, FsCall("mkdir", save.targetPath, TRUE))
  /\ tempDir' = IF save.targetPath = TempPath THEN [tempDir EXCEPT !.exists = TRUE]
                ELSE tempDir
  /\ imageDir' = IF save.targetPath # TempPath
                     /\ ~FolderExists(imageDir, save.targetPath.folder)
                  THEN Append(imageDir, Dir(save.targetPath.folder, <<>>))
                  ELSE imageDir
  /\ \E now \in {999} :
       save' = LoopFrom([save EXCEPT !.baseTimestamp = now, !.savedCount = 0], 1)
  /\ outcomes' = PassedOver(save, 1)
  /\ UNCHANGED <<saveConfigVars, session, notices, written, maxout, readVars,
                 quotaVars, renderVars>>

\* fs.mkdir rejects
EnsureTargetFails ==
  /\ save.pc = "mkdir"
  /\ save' = Return(save, Message("failed", 0, <<"mkdir">>))
  /\ fsCalls' = Append(fsCalls, FsCall("mkdir", save.targetPath, FALSE))
  /\ UNCHANGED <<saveConfigVars, tempDir, session, notices, outcomes, written, imageDir,
                 maxout, readVars, quotaVars, renderVars>>

\* FetchFile with the size test >= in place of >
FetchFile_SkipAtThreshold ==
  /\ save.pc = "fetch"
  /\ \E file \in {r \in FetchResults : r.status # "throw"} :
       IF file.status = "nodata"
       THEN /\ save' = LoopFrom(save, save.i + 1)
            /\ outcomes' = Append(outcomes, "skipped-no-data") \o PassedOver(save, save.i + 1)
       ELSE /\ save' = [save EXCEPT !.file = file,
                          !.pc = IF file.size >= save.limit * 1024 * 1024
                                 THEN "notice" ELSE "write"]
            /\ UNCHANGED outcomes
  /\ UNCHANGED <<saveConfigVars, tempDir, session, notices, written, fsCalls, imageDir,
                 maxout, readVars, quotaVars, renderVars>>

\* ctx.http.file(url) resolves: no data skips the item, an oversize buffer
\* leads to the notice, otherwise the file name is rendered for the write
FetchFile ==
  /\ save.pc = "fetch"
  /\ \E file \in {r \in FetchResults : r.status # "throw"} :
       IF file.status = "nodata"
       THEN /\ save' = LoopFrom(save, save.i + 1)
            /\ outcomes' = Append(outcomes, "skipped-no-data") \o PassedOver(save, save.i + 1)
       ELSE /\ save' = [save EXCEPT !.file = file,
                          !.pc = IF file.size > save.limit * 1024 * 1024
                                 THEN "notice" ELSE "write"]
            /\ UNCHANGED outcomes
  /\ UNCHANGED <<saveConfigVars, tempDir, session, notices, written, fsCalls, imageDir,
                 maxout, readVars, quotaVars, renderVars>>

\* ctx.http.file(url) rejects
FetchFileFails ==
  /\ save.pc = "fetch"
  /\ save' = Return(save, Message("failed", save.savedCount, <<"fetch">>))
  /\ outcomes' = Append(outcomes, "failed")
  /\ UNCHANGED <<saveConfigVars, tempDir, session, notices, written, fsCalls, imageDir,
                 maxout, readVars, quotaVars, renderVars>>

\* (buffer.length / (1024 * 1024)).toFixed(2)
ToFixed2(bytes) ==
  LET hundredths == (bytes * 100 + 512 * 1024) \div (1024 * 1024)
  IN NatToString(hundredths \div 100) \o <<".">> \o Pad2(hundredths % 100)

\* `文件 ${i + 1} 大小(${sizeMB}MB)超出限制(${sizeLimitMB}MB)，已跳过`, i + 1 = position
SkipNotice(position, bytes, sizeLimitMB) ==
  <<"f","i","l","e"," ">> \o NumberToString(position)
    \o <<" ","s","i","z","e","(">> \o ToFixed2(bytes) \o <<"M","B",")">>
    \o <<" ","l","i","m","i","t","(">> \o NumberToString(sizeLimitMB) \o <<"M","B",")">>

\* session.send of the oversize notice resolves; continue
SendSkipNotice ==
  /\ save.pc = "notice"
  /\ notices' = Append(notices, SkipNotice(save.i, save.file.size, save.limit))
  /\ save' = LoopFrom(save, save.i + 1)
  /\ outcomes' = Append(outcomes, "skipped-oversize") \o PassedOver(save, save.i + 1)
  /\ UNCHANGED <<saveConfigVars, tempDir, session, written, fsCalls, imageDir, maxout,
                 readVars, quotaVars, renderVars>>

\* session.send of the oversize notice rejects
SendSkipNoticeFails ==
  /\ save.pc = "notice"
  /\ save' = Return(save, Message("failed", save.savedCount, <<"send">>))
  /\ outcomes' = Append(outcomes, "failed")
  /\ UNCHANGED <<saveConfigVars, tempDir, session, notices, written, fsCalls, imageDir,
                 maxout, readVars, quotaVars, renderVars>>

\* the file name of item i of the request
FilenameOf(sv, ss) ==
  RenderFilename(filenameTemplate, SessionText(ss), sv.baseTimestamp + (sv.i - 1), sv.i,
                 GetFileExtension(sv.file.mime, sv.allImages[sv.i].type))

\* a directory listing after filename was created or replaced in folderName
WithFile(dir, folderName, filename) ==
  [k \in 1..Len(dir) |->
     IF dir[k].isDirectory /\ dir[k].name = folderName /\ ~Includes(dir[k].files, filename)
     THEN [dir[k] EXCEPT !.files = Append(@, filename)]
     ELSE dir[k]]

\* WriteFile without savedCount++
WriteFile_Uncounted ==
  /\ save.pc = "write"
  /\ LET filename == FilenameOf(save, session)
     IN /\ NamesAFile(filename)
        /\ written' = Append(written, [path |-> save.targetPath, filename |-> filename,
                                       item |-> save.i, bytes |-> save.file.size])
        /\ IF save.targetPath = TempPath
           THEN /\ tempDir' = [tempDir EXCEPT !.files =
                                 IF Includes(@, filename) THEN @ ELSE Append(@, filename)]
                /\ UNCHANGED imageDir
           ELSE /\ imageDir' = WithFile(imageDir, save.targetPath.folder, filename)
                /\ UNCHANGED tempDir
  /\ save' = LoopFrom(save, save.i + 1)
  /\ outcomes' = Append(outcomes, "saved") \o PassedOver(save, save.i + 1)
  /\ fsCalls' = Append(fsCalls, FsCall("writeFile", save.targetPath, TRUE))
  /\ UNCHANGED <<saveConfigVars, session, notices, maxout, readVars, quotaVars, renderVars>>

\* fs.writeFile(filepath, buffer) resolves; savedCount++
WriteFile ==
  /\ save.pc = "write"
  /\ LET filename == FilenameOf(save, session)
     IN /\ NamesAFile(filename)
        /\ written' = Append(written, [path |-> save.targetPath, filename |-> filename,
                                       item |-> save.i, bytes |-> save.file.size])
        /\ IF save.targetPath = TempPath
           THEN /\ tempDir' = [tempDir EXCEPT !.files =
                                 IF Includes(@, filename) THEN @ ELSE Append(@, filename)]
                /\ UNCHANGED imageDir
           ELSE /\ imageDir' = WithFile(imageDir, save.targetPath.folder, filename)
                /\ UNCHANGED tempDir
  /\ save' = LoopFrom([save EXCEPT !.savedCount = @ + 1], save.i + 1)
  /\ outcomes' = Append(outcomes, "saved") \o PassedOver(save, save.i + 1)
  /\ fsCalls' = Append(fsCalls, FsCall("writeFile", save.targetPath, TRUE))
  /\ UNCHANGED <<saveConfigVars, session, notices, maxout, readVars, quotaVars, renderVars>>

\* WriteFileFails with the error swallowed: the loop goes on
WriteFileFails_Ignored ==
  /\ save.pc = "write"
  /\ save' = LoopFrom(save, save.i + 1)
  /\ outcomes' = Append(outcomes, "failed") \o PassedOver(save, save.i + 1)
  /\ fsCalls' = Append(fsCalls, FsCall("writeFile", save.targetPath, FALSE))
  /\ UNCHANGED <<saveConfigVars, tempDir, session, notices, written, imageDir,
                 maxout, readVars, quotaVars, renderVars>>

\* fs.writeFile rejects
WriteFileFails ==
  /\ save.pc = "write"
  /\ save' = Return(save, Message("failed", save.savedCount, <<"writeFile">>))
  /\ outcomes' = Append(outcomes, "failed")
  /\ fsCalls' = Append(fsCalls, FsCall("writeFile", save.targetPath, FALSE))
  /\ UNCHANGED <<saveConfigVars, tempDir, session, notices, written, imageDir,
                 maxout, readVars, quotaVars, renderVars>>

(***************************************************************************)
(* The read path: the message middleware and processImageRequest.  Each    *)
(* action is the code between two awaits; an awaited call that can throw   *)
(* has a second action for the throw, which lands in the catch block.      *)
(***************************************************************************)
ReadIdle ==
  /\ rpc = "idle" /\ input = <<>> /\ bestMatches = <<>> /\ selectedMatch = NoSelection
  /\ count = Unit /\ mediaFiles = <<>> /\ sendIndex = 0 /\ sent = <<>>
  /\ processed = "none" /\ caught = "none" /\ nextCalls = 0 /\ listed = <<>>
  /\ warnings = <<>>

\* ReturnToMiddleware of a middleware that stops at a handled message
ReturnToMiddleware_StopsWhenHandled(value) ==
  /\ processed' = value
  /\ nextCalls' = IF value = "true" THEN nextCalls ELSE nextCalls + 1
  /\ rpc' = "done"

\* processImageRequest returns `value`; the middleware then returns next()
ReturnToMiddleware(value) ==
  /\ processed' = value
  /\ nextCalls' = nextCalls + 1
  /\ rpc' = "done"

\* Catch letting the error leave the middleware: next() is not called
Catch_Rethrow(error) ==
  /\ caught' = error
  /\ rpc' = "done"
  /\ UNCHANGED <<processed, nextCalls>>

\* catch (error) { loginfo('发图失败:', error); return false }
Catch(error) ==
  /\ caught' = error
  /\ ReturnToMiddleware("false")

\* ctx.middleware callback up to the first await: trim, empty check
Middleware ==
  /\ rpc = "idle"
  /\ \E content \in Inputs :
       /\ input' = Trim(content)
       /\ IF Trim(content) = <<>>
          THEN rpc' = "done" /\ nextCalls' = 1
          ELSE rpc' = "readdir" /\ nextCalls' = 0
  /\ UNCHANGED <<bestMatches, selectedMatch, count, mediaFiles, sendIndex, sent,
                 processed, caught, listed, warnings, served, configVars, quotaVars, renderVars, saveVars>>

\* the callback has returned; the locals of the request are gone and the next
\* inbound message finds a fresh invocation
MessageHandled ==
  /\ rpc = "done"
  /\ rpc' = "idle" /\ input' = <<>>
  /\ bestMatches' = <<>> /\ selectedMatch' = NoSelection /\ count' = Unit
  /\ mediaFiles' = <<>> /\ sendIndex' = 0 /\ sent' = <<>> /\ processed' = "none"
  /\ caught' = "none" /\ nextCalls' = 0 /\ listed' = <<>> /\ warnings' = <<>>
  /\ UNCHANGED <<served, configVars, quotaVars, renderVars, saveVars>>

\* fs.readdir(config.imagePath) resolves: matching, selection, warning, count
ResolveAlias ==
  /\ rpc = "readdir"
  /\ LET possibleMatches == PossibleMatches(imageDir, input)
     IN IF possibleMatches = <<>>
        THEN /\ ReturnToMiddleware("false")
             /\ UNCHANGED <<bestMatches, selectedMatch, count, warnings, served>>
        ELSE LET best == BestMatches(possibleMatches)
             IN \E k \in 1..Len(best) :      \* Math.floor(Math.random() * length)
                  /\ bestMatches' = best
                  /\ selectedMatch' = best[k]
                  /\ warnings' = IF Len(best) > 1
                                 THEN <<CollisionWarning(best[k], best)>> ELSE <<>>
                  /\ served' = IF Len(best) > 1
                               THEN served \cup {best[k].folderName} ELSE served
                  /\ count' = ParseCount(best[k].suffix, maxout)
                  /\ rpc' = "readFolder"
                  /\ UNCHANGED <<processed, nextCalls>>
  /\ UNCHANGED <<input, mediaFiles, sendIndex, sent, caught, listed, configVars,
                 quotaVars, renderVars, saveVars>>

\* fs.readdir(config.imagePath) rejects: catch, return false
ResolveAliasFails ==
  /\ rpc = "readdir"
  /\ Catch("readdir")
  /\ UNCHANGED <<input, bestMatches, selectedMatch, count, mediaFiles, sendIndex,
                 sent, listed, warnings, served, configVars, quotaVars, renderVars, saveVars>>

\* fs.readdir(folderPath) resolves: filter; a count below 1 skips the loop
ListFolder ==
  /\ rpc = "readFolder"
  /\ FolderExists(imageDir, selectedMatch.folderName)
  /\ LET media == MediaFiles(FilesOf(imageDir, selectedMatch.folderName))
     IN /\ mediaFiles' = media
        /\ listed' = Append(listed, selectedMatch.folderName)
        /\ IF media = <<>>
           THEN rpc' = "sendEmpty" /\ UNCHANGED <<processed, nextCalls>>
           ELSE IF 0 < count
                THEN rpc' = "sending" /\ UNCHANGED <<processed, nextCalls>>
                ELSE ReturnToMiddleware("true")
  /\ UNCHANGED <<input, bestMatches, selectedMatch, count, sendIndex, sent, caught,
                 warnings, served, configVars, quotaVars, renderVars, saveVars>>

\* fs.readdir(folderPath) rejects
ListFolderFails ==
  /\ rpc = "readFolder"
  /\ Catch("readFolder")
  /\ UNCHANGED <<input, bestMatches, selectedMatch, count, mediaFiles, sendIndex,
                 sent, listed, warnings, served, configVars, quotaVars, renderVars, saveVars>>

EmptyNotice == [kind |-> "text", folderName |-> <<>>, file |-> <<>>]

\* await session.send('该文件夹暂无图片或视频'); return true
SendEmptyNotice ==
  /\ rpc = "sendEmpty"
  /\ sent' = Append(sent, EmptyNotice)
  /\ ReturnToMiddleware("true")
  /\ UNCHANGED <<input, bestMatches, selectedMatch, count, mediaFiles, sendIndex,
                 caught, listed, warnings, served, configVars, quotaVars, renderVars, saveVars>>

\* one turn of the send loop: random file, image or video element, send
SendMedia ==
  /\ rpc = "sending"
  /\ \E k \in 1..Len(mediaFiles) :
       sent' = Append(sent, MediaElement(selectedMatch.folderName, mediaFiles[k]))
  /\ sendIndex' = sendIndex + 1
  /\ IF Unit * (sendIndex + 1) < count       \* i++; i < count
     THEN UNCHANGED <<rpc, processed, nextCalls>>
     ELSE ReturnToMiddleware("true")
  /\ UNCHANGED <<input, bestMatches, selectedMatch, count, mediaFiles, caught,
                 listed, warnings, served, configVars, quotaVars, renderVars, saveVars>>

\* session.send rejects (either call): catch, return false
SendFails ==
  /\ rpc \in {"sendEmpty", "sending"}
  /\ Catch("send")
  /\ UNCHANGED <<input, bestMatches, selectedMatch, count, mediaFiles, sendIndex,
                 sent, listed, warnings, served, configVars, quotaVars, renderVars, saveVars>>

QuotaInert ==
  /\ qpc = "off" /\ qUserId = "" /\ qGuildId = "" /\ qUserLimits = <<>>
  /\ qGroupLimits = <<>> /\ qLimit = 0

InitRead ==
  /\ maxout \in (-Unit..Unit * MaxMaxout) \cup {Unit * DefaultMaxout}
  /\ imageDir \in DirConfigs
  /\ ReadIdle
  /\ served = {}
  /\ QuotaInert
  /\ SaveInert
  /\ RenderInert

NextRead ==
  \/ Middleware
  \/ ResolveAlias
  \/ ResolveAliasFails
  \/ ListFolder
  \/ ListFolderFails
  \/ SendEmptyNotice
  \/ SendMedia
  \/ SendFails
  \/ MessageHandled

SpecRead == InitRead /\ [][NextRead]_vars

\* the steps of a request under way: each awaited call settles
RequestStep ==
  \/ ResolveAliasFails
  \/ ListFolderFails
  \/ SendFails
  \/ ResolveAlias
  \/ ListFolder
  \/ SendEmptyNotice
  \/ SendMedia

SpecReadLive == InitRead /\ [][NextRead]_vars /\ WF_vars(RequestStep)


(***************************************************************************)
(* Quota resolution applied to one identity and one pair of rule tables.   *)
(***************************************************************************)
QuotaValues == {Undefined, Null, NaN, JsStr, JsNum(-1), JsNum(0), JsNum(2), JsNum(5)}

UserRows == [id : {"u1", "default"}, sizeLimit : QuotaValues]
GroupRows == [id : {"g1", "default"}, sizeLimit : QuotaValues]

\* session.userId; "constructor" is an id that no table of the model names
QuotaUserIds == {"u1", "constructor"}
\* session.guildId; "" stands for a private chat (no guild id)
QuotaGuildIds == {"", "g1"}

TablesUpTo(rows, n) == UNION {[1..k -> rows] : k \in 0..n}

ReadInert ==
  /\ ReadIdle
  /\ served = {}

ConfigInert ==
  /\ maxout = Unit * DefaultMaxout
  /\ imageDir = <<>>

InitQuota ==
  /\ qpc = "start"
  /\ qUserId \in QuotaUserIds
  /\ qGuildId \in QuotaGuildIds
  /\ \E n \in 0..MaxRows :
       /\ qUserLimits \in TablesUpTo(UserRows, n)
       /\ qGroupLimits \in TablesUpTo(GroupRows, MaxRows - n)
  /\ qLimit = 0
  /\ ReadInert
  /\ ConfigInert
  /\ SaveInert
  /\ RenderInert

\* the save command's "检查权限和尺寸限制" block
CheckQuota ==
  /\ qpc = "start"
  /\ qLimit' = ResolveLimit(qUserId, qGuildId, qUserLimits, qGroupLimits)
  /\ qpc' = "resolved"
  /\ UNCHANGED <<qUserId, qGuildId, qUserLimits, qGroupLimits, readVars, configVars,
                 saveVars, renderVars>>

NextQuota == CheckQuota

SpecQuota == InitQuota /\ [][NextQuota]_vars

InitSave ==
  /\ saveFailFallback \in BOOLEAN
  /\ \E limits \in LimitConfigs : userLimits = limits.user /\ groupLimits = limits.group
  /\ filenameTemplate \in Templates
  /\ imageDir \in SaveDirConfigs
  /\ tempDir = [exists |-> FALSE, files |-> <<>>]
  /\ session = NoSession /\ save = SaveIdle /\ notices = <<>> /\ outcomes = <<>>
  /\ written = <<>> /\ fsCalls = <<>>
  /\ maxout = Unit * DefaultMaxout
  /\ ReadInert
  /\ QuotaInert
  /\ RenderInert

NextSave ==
  \/ SaveCommand
  \/ ImagesReply
  \/ KeywordReply
  \/ FindTarget
  \/ FindTargetFails
  \/ EnsureTarget
  \/ EnsureTargetFails
  \/ FetchFile
  \/ FetchFileFails
  \/ SendSkipNotice
  \/ SendSkipNoticeFails
  \/ WriteFile
  \/ WriteFileFails

SpecSave == InitSave /\ [][NextSave]_vars

(***************************************************************************)
(* Requests against a collection directory that other processes change:    *)
(* Collections are added and removed by file system operations outside the *)
(* plugin, at any moment, also between the awaits of a request.  The read  *)
(* path and the save command share nothing but that directory, so the      *)
(* steps of the one are taken while the other is idle.                     *)
(***************************************************************************)
\* the collection directory when the plugin starts
BaseListing == << Dir(NameZA, <<File1Jpg>>) >>

\* the Collections that come and go
ExternalCollections == { Dir(NameZA, <<File1Jpg>>), Dir(NameYAB, <<File2PNG>>) }

\* most items in one save request against the changing directory
MaxSharedItems == 1

\* a directory appears under config.imagePath
CollectionAdded ==
  /\ \E c \in ExternalCollections :
       /\ \A k \in 1..Len(imageDir) : imageDir[k].name # c.name
       /\ imageDir' = Append(imageDir, c)
  /\ UNCHANGED <<maxout, readVars, quotaVars, renderVars, saveVars>>

\* a directory under config.imagePath is deleted
CollectionRemoved ==
  /\ \E k \in 1..Len(imageDir) :
       imageDir' = SubSeq(imageDir, 1, k - 1) \o SubSeq(imageDir, k + 1, Len(imageDir))
  /\ UNCHANGED <<maxout, readVars, quotaVars, renderVars, saveVars>>

InitShared ==
  /\ maxout = Unit * DefaultMaxout
  /\ imageDir = BaseListing
  /\ ReadIdle
  /\ served = {}
  /\ QuotaInert
  /\ saveFailFallback \in BOOLEAN
  /\ userLimits = << [id |-> "u1", sizeLimit |-> JsNum(5)] >>
  /\ groupLimits = << [id |-> "default", sizeLimit |-> JsNum(2)] >>
  /\ filenameTemplate = DefaultTemplate
  /\ tempDir = [exists |-> FALSE, files |-> <<>>]
  /\ session = NoSession /\ save = SaveIdle /\ notices = <<>> /\ outcomes = <<>>
  /\ written = <<>> /\ fsCalls = <<>>
  /\ RenderInert

NextShared ==
  \/ save.pc = "idle" /\ NextRead
  \/ rpc = "idle" /\ NextSave /\ Len(save'.allImages) <= MaxSharedItems
  \/ CollectionAdded
  \/ CollectionRemoved

SpecShared == InitShared /\ [][NextShared]_vars

(***************************************************************************)
(* The naming of a saved file applied to one template and one context.     *)
(***************************************************************************)
\* config.filenameTemplate: the default, a repeated placeholder, an unknown
\* placeholder, reserved characters, no placeholder at all
RenderTemplates ==
  { DefaultTemplate,
    Placeholder(<<"u","s","e","r","n","a","m","e">>) \o Placeholder(<<"e","x","t">>),
    Placeholder(<<"u","s","e","r","n","a","m","e">>) \o <<"$">>
      \o Placeholder(<<"u","s","e","r","n","a","m","e">>),
    Placeholder(<<"f","o","o">>) \o <<"{">> \o Placeholder(<<"i","n","d","e","x">>),
    <<"a","/","b",":">> \o Placeholder(<<"c","h","a","n","n","e","l","I","d">>)
      \o <<"*","?","\n">>,
    Placeholder(<<"t","i","m","e","s","t","a","m","p">>) \o <<"_">>
      \o Placeholder(<<"u","s","e","r","n","a","m","e">>),
    <<"p">> }

\* session.username: a display name chosen by the user
RenderUsernames ==
  { <<>>, <<"A">>, <<"a","/","b">>, <<"<","\t",">","|","\\","\"">>, <<"$","&">>, <<"$","$">>,
    Placeholder(<<"i","n","d","e","x">>), Placeholder(<<"e","x","t">>) }

RenderSessions ==
  [userId : {<<>>, <<"u","1">>}, guildId : {<<>>, <<"g","1">>},
   username : RenderUsernames, channelId : {<<>>, <<"c">>}]

RenderExts == { GetFileExtension("image/png", "img"), GetFileExtension("", "video") }

InitRender ==
  /\ \E template \in RenderTemplates, ss \in RenderSessions, timestamp \in {0, 1000},
        index \in 1..MaxItems, ext \in RenderExts :
       render = [pc |-> "start", template |-> template, session |-> ss,
                 timestamp |-> timestamp, index |-> index, ext |-> ext,
                 substituted |-> <<>>, filename |-> <<>>]
  /\ ReadInert
  /\ ConfigInert
  /\ QuotaInert
  /\ SaveInert

\* let filename = config.filenameTemplate.replace(...)...; then the
\* sanitizing replace
RenderName ==
  /\ render.pc = "start"
  /\ LET filename == SubstituteTemplate(render.template, render.session, render.timestamp,
                                        render.index, render.ext)
     IN render' = [render EXCEPT !.pc = "rendered", !.substituted = filename,
                                 !.filename = Sanitize(filename)]
  /\ UNCHANGED <<configVars, readVars, quotaVars, saveVars>>

NextRender == RenderName

SpecRender == InitRender /\ [][NextRender]_vars

(***************************************************************************)
(* Properties of quota resolution.                                         *)
(***************************************************************************)
\* the row in effect for an id: the last row of the table with that id and a
\* size limit
HasRow(table, id) ==
  \E k \in 1..Len(table) : table[k].id = id /\ table[k].sizeLimit # Undefined

RowValue(table, id) ==
  table[SetMax({k \in 1..Len(table) :
                  table[k].id = id /\ table[k].sizeLimit # Undefined})].sizeLimit

\* a valid limit stands, anything else denies
AsLimit(value) == IF value.t = "number" /\ value.v >= 0 THEN value.v ELSE 0

\* the limit the precedence order assigns to an identity
PrecedenceLimit(userId, guildId, userTable, groupTable) ==
  AsLimit(
    IF HasRow(userTable, userId) THEN RowValue(userTable, userId)
    ELSE IF guildId # "" /\ HasRow(groupTable, guildId)
         THEN RowValue(groupTable, guildId)
    ELSE IF guildId # "" /\ HasRow(groupTable, "default")
         THEN RowValue(groupTable, "default")
    ELSE IF HasRow(userTable, "default") THEN RowValue(userTable, "default")
    ELSE JsNum(0))

\* C1: the resolved limit is that of the user's own row if present, else of
\* the guild's row, else of the group default (both only with a guild id),
\* else of the user default, else 0 -- for every identity and pair of tables.
C1_QuotaPrecedence ==
  qpc = "resolved" =>
    qLimit = PrecedenceLimit(qUserId, qGuildId, qUserLimits, qGroupLimits)

\* the value of the row that wins by precedence; Undefined when no row applies
WinningValue(userId, guildId, userTable, groupTable) ==
  IF HasRow(userTable, userId) THEN RowValue(userTable, userId)
  ELSE IF guildId # "" /\ HasRow(groupTable, guildId)
       THEN RowValue(groupTable, guildId)
  ELSE IF guildId # "" /\ HasRow(groupTable, "default")
       THEN RowValue(groupTable, "default")
  ELSE IF HasRow(userTable, "default") THEN RowValue(userTable, "default")
  ELSE Undefined

\* negative, non-numeric, NaN or null
InvalidValue(value) == value.t # "number" \/ value.v < 0

\* C15: the resolved limit is always a non-negative number; when the value
\* of the winning row is negative, non-numeric, NaN or null the limit is 0,
\* whatever valid values the rows of lower precedence hold.
C15_InvalidValueDenies ==
  qpc = "resolved" =>
    /\ qLimit \in Nat
    /\ InvalidValue(WinningValue(qUserId, qGuildId, qUserLimits, qGroupLimits))
         => qLimit = 0

\* C15 witness: the row of user u1 holds NaN, the row of guild g1 and both
\* default rows hold 5; the limit of (u1, g1) resolved to 0.
C15_Witness ==
  /\ qpc = "resolved"
  /\ qUserId = "u1" /\ qGuildId = "g1"
  /\ qUserLimits = << [id |-> "u1", sizeLimit |-> NaN], [id |-> "default", sizeLimit |-> JsNum(5)] >>
  /\ qGroupLimits = << [id |-> "g1", sizeLimit |-> JsNum(5)] >>
  /\ qLimit = 0

\* the rows of a table that count: those with a size limit that no later row
\* of the same id with a size limit follows
EffectiveRows(table) ==
  LET keep == { k \in 1..Len(table) :
                  /\ table[k].sizeLimit # Undefined
                  /\ \A j \in k + 1..Len(table) :
                       ~(table[j].id = table[k].id /\ table[j].sizeLimit # Undefined) }
      F[k \in 0..Len(table)] ==
        IF k = 0 THEN <<>>
        ELSE IF k \in keep THEN Append(F[k - 1], table[k]) ELSE F[k - 1]
  IN F[Len(table)]

\* C30: of several rows with the same id in a rule table the last one takes
\* effect, and a row whose size limit is undefined is ignored altogether:
\* the limit resolved is the one resolved from the tables without the
\* superseded and the undefined rows, so an id left without a row falls
\* through to the next level of precedence.
C30_LastRowWins ==
  qpc = "resolved" =>
    /\ qLimit = ResolveLimit(qUserId, qGuildId, EffectiveRows(qUserLimits),
                             EffectiveRows(qGroupLimits))
    /\ (qUserId = "u1" /\ EffectiveRows(qUserLimits) # <<>>
          /\ \A k \in 1..Len(qUserLimits) : qUserLimits[k].id = "u1")
         => qLimit = AsLimit(EffectiveRows(qUserLimits)[1].sizeLimit)
    /\ (qUserId = "u1" /\ qGuildId = "g1" /\ qUserLimits # <<>>
          /\ (\A k \in 1..Len(qUserLimits) :
                qUserLimits[k].id = "u1" /\ qUserLimits[k].sizeLimit = Undefined)
          /\ Len(EffectiveRows(qGroupLimits)) = 1
          /\ EffectiveRows(qGroupLimits)[1].id = "g1")
         => qLimit = AsLimit(EffectiveRows(qGroupLimits)[1].sizeLimit)

\* C30 witness: three rows of user u1, with 5, with 2 and with no size
\* limit; the limit is that of the second.
C30_Witness ==
  /\ qpc = "resolved"
  /\ qUserId = "u1"
  /\ qUserLimits = << [id |-> "u1", sizeLimit |-> JsNum(5)],
                      [id |-> "u1", sizeLimit |-> JsNum(2)],
                      [id |-> "u1", sizeLimit |-> Undefined] >>
  /\ qLimit = 2

(***************************************************************************)
(* Properties of the read path.                                            *)
(***************************************************************************)
\* a is one of the delimiter-separated segments of name, stated by position
IsSegment(name, a) ==
  \E lo \in 1..Len(name) + 1 : \E hi \in lo - 1..Len(name) :
    /\ SubSeq(name, lo, hi) = a
    /\ \A k \in lo..hi : name[k] # "-"
    /\ (lo = 1 \/ name[lo - 1] = "-")
    /\ (hi = Len(name) \/ name[hi + 1] = "-")

\* the Collections (directories) of a listing, in listing order
Collections(dir) == SelectSeq(dir, LAMBDA e : e.isDirectory)

\* lengths of the aliases, over all Collections, that are prefixes of text
PrefixLengths(dir, text) ==
  { n \in 0..Len(text) :
      \E k \in 1..Len(dir) : dir[k].isDirectory /\ IsSegment(dir[k].name, SubSeq(text, 1, n)) }

Resolved == selectedMatch # NoSelection

\* C4: the repeat count used by the read path lies in [1, maxout]; a value
\* below 1 becomes 1 (also for a suffix of 0 and for a maxout below 1).
C4_CountWithinOneAndMaxout ==
  Resolved =>
    /\ count >= Unit
    /\ (maxout >= Unit => count <= maxout)
    /\ ParseCountLegacy(selectedMatch.suffix, maxout) >= Unit

\* C5: an empty suffix gives count 1, a suffix of decimal digits gives
\* min(parsed, maxout) with leading zeros ignored, any other suffix gives 1,
\* and the request proceeds.
C5_CountFromSuffix ==
  Resolved =>
    LET suffix == selectedMatch.suffix
        expected == IF suffix = <<>> THEN Unit
                    ELSE IF \A k \in 1..Len(suffix) : suffix[k] \in Digits
                         THEN (IF Unit * DecimalValue(suffix) < maxout
                               THEN Unit * DecimalValue(suffix) ELSE maxout)
                         ELSE Unit
    IN /\ count = expected
       /\ ParseCountLegacy(suffix, maxout) = expected

\* C6: the alias of the selected match is a prefix of the input of maximum
\* length among all aliases of all Collections that are prefixes of the
\* input, and the serving Collection carries that alias.
C6_LongestPrefix ==
  Resolved =>
    /\ PrefixLengths(imageDir, input) # {}
    /\ selectedMatch.aliasLength = SetMax(PrefixLengths(imageDir, input))
    /\ selectedMatch.alias = SubSeq(input, 1, selectedMatch.aliasLength)
    /\ Len(selectedMatch.alias) = selectedMatch.aliasLength
    /\ \E k \in 1..Len(imageDir) :
         /\ imageDir[k].isDirectory
         /\ imageDir[k].name = selectedMatch.folderName
         /\ IsSegment(imageDir[k].name, selectedMatch.alias)

\* C6 witness: a shorter alias and a longer alias are both prefixes of the
\* input, and the longer one was selected.
C6_Witness ==
  /\ Resolved
  /\ Cardinality(PrefixLengths(imageDir, input)) >= 2
  /\ selectedMatch.aliasLength = 2
  /\ rpc = "readFolder"

\* C7: when no alias of any Collection is a prefix of the input, the request
\* resolves nothing, sends nothing, logs no warning, lists no Collection, and
\* the message is passed on once.
C7_NoMatchNoAction ==
  (input # <<>> /\ PrefixLengths(imageDir, input) = {}) =>
    /\ ~Resolved
    /\ sent = <<>>
    /\ warnings = <<>>
    /\ listed = <<>>
    /\ (rpc = "done" => processed = "false" /\ nextCalls = 1)
    /\ rpc \in {"idle", "readdir", "done"}

\* C7 witness: a finished request over a listing with Collections whose input
\* has no alias as a prefix.
C7_Witness ==
  /\ rpc = "done"
  /\ input # <<>>
  /\ Collections(imageDir) # <<>>
  /\ PrefixLengths(imageDir, input) = {}
  /\ nextCalls = 1

\* the Collections carrying text as an alias, in listing order
Carriers(dir, text) ==
  LET cs == Collections(dir)
      hit == SelectSeq(cs, LAMBDA e : IsSegment(e.name, text))
  IN [k \in 1..Len(hit) |-> hit[k].name]

TwoCollide ==
  /\ Len(Carriers(imageDir, input)) = 2
  /\ Carriers(imageDir, input)[1] # Carriers(imageDir, input)[2]

\* C8: with two Collections X-a and Y-a and input exactly a, the serving
\* Collection is always one of the two, the collision warning naming both is
\* logged on every such request, and the request is served: it goes on to
\* list the chosen Collection and ends handled unless an I/O call fails.
C8_CollisionServed ==
  (TwoCollide /\ rpc \notin {"idle", "readdir"} /\ caught # "readdir") =>
    /\ Resolved
    /\ selectedMatch.alias = input
    /\ selectedMatch.folderName \in
         {Carriers(imageDir, input)[1], Carriers(imageDir, input)[2]}
    /\ warnings = << [alias |-> input, n |-> 2, folders |-> Carriers(imageDir, input)] >>
    /\ served \subseteq {Carriers(imageDir, input)[1], Carriers(imageDir, input)[2]}
    /\ (rpc = "done" /\ caught = "none") =>
          (processed = "true" /\ listed = <<selectedMatch.folderName>>)

\* C8 witness: input a over x-a and y-a; both have by now been chosen as the
\* serving Collection, and this request delivered an item with the warning.
C8_Witness ==
  /\ input = <<"a">>
  /\ TwoCollide
  /\ served = {NameXA, NameYA}
  /\ selectedMatch.folderName = NameYA
  /\ processed = "true"
  /\ Len(sent) >= 1
  /\ Len(warnings) = 1

\* the media files of the model and the kind each must be sent as
ExpectedVideos == {FileVMp4, FileCMov}
ExpectedImages == {File1Jpg, File2PNG, File3Gif}

\* C9: a successful request with resolved count n over a Collection with
\* media files sends exactly n items, each a media file of the resolved
\* Collection, as a video exactly for mp4/mov/avi in any letter case.
C9_ExactlyCountItems ==
  (rpc = "done" /\ processed = "true" /\ mediaFiles # <<>>) =>
    /\ Unit * Len(sent) = count
    /\ \A k \in 1..Len(sent) :
         /\ sent[k].folderName = selectedMatch.folderName
         /\ Includes(FilesOf(imageDir, selectedMatch.folderName), sent[k].file)
         /\ sent[k].file \in ExpectedVideos \cup ExpectedImages
         /\ sent[k].kind = (IF sent[k].file \in ExpectedVideos THEN "video" ELSE "image")

\* C18: a failure to read the collection directory or the resolved
\* Collection's directory is not propagated: the request ends as with no
\* match -- nothing is sent to the user, processImageRequest returns false,
\* and the message is passed on by exactly one call of next().
C18_ReadFailureIsNoMatch ==
  caught \in {"readdir", "readFolder"} =>
    /\ rpc = "done"
    /\ processed = "false"
    /\ sent = <<>>
    /\ mediaFiles = <<>>
    /\ nextCalls = 1
    /\ caught = "readdir" => (selectedMatch = NoSelection /\ warnings = <<>> /\ listed = <<>>)

\* C18 witness: the input resolved to a Collection whose directory could
\* not be read.
C18_Witness ==
  /\ caught = "readFolder"
  /\ selectedMatch # NoSelection
  /\ processed = "false"
  /\ nextCalls = 1
  /\ sent = <<>>

\* C20: when the resolved Collection holds no file with an allowed media
\* extension, the request sends the empty-collection message and no media
\* item, and counts as handled (processImageRequest returns true), not as an
\* error or a no-match.
C20_EmptyCollectionNotice ==
  (rpc = "done" /\ listed # <<>> /\ caught = "none"
     /\ \A k \in 1..Len(FilesOf(imageDir, selectedMatch.folderName)) :
          FilesOf(imageDir, selectedMatch.folderName)[k] \notin ExpectedVideos \cup ExpectedImages) =>
    /\ sent = <<EmptyNotice>>
    /\ processed = "true"
    /\ nextCalls = 1

\* C20 witness: a Collection holding only a text file, requested three
\* times over, answered with the one message.
C20_Witness ==
  /\ rpc = "done"
  /\ processed = "true"
  /\ count = Unit * 3
  /\ FilesOf(imageDir, selectedMatch.folderName) # <<>>
  /\ mediaFiles = <<>>
  /\ sent = <<EmptyNotice>>

(***************************************************************************)
(* Properties of the save command.                                         *)
(***************************************************************************)
Started == save.pc # "idle"

SessionLimit == PrecedenceLimit(session.userId, session.guildId, userLimits, groupLimits)

\* C2: when the identity's resolved limit is 0 the save ends with the
\* quota-denied message (not the I/O failure message) once images and
\* keyword are in hand, and no directory is listed or created and no file
\* is written: the saved count stays 0.
C2_DeniedWritesNothing ==
  (Started /\ SessionLimit = 0) =>
    /\ fsCalls = <<>>
    /\ written = <<>>
    /\ outcomes = <<>>
    /\ tempDir = [exists |-> FALSE, files |-> <<>>]
    /\ save.savedCount = 0
    /\ save.pc \in {"promptImages", "promptKeyword", "done"}
    /\ (save.pc = "done" =>
          save.returned.kind \in {"denied", "noImage", "noValidImage", "timeout"})
    /\ (save.pc = "done" /\ save.allImages # <<>> /\ save.returned.kind # "timeout") =>
          save.returned = Message("denied", 0, <<>>)

\* C2 witness: a request with an image and a keyword from an identity whose
\* limit resolves to 0 has ended with the denial.
C2_Witness ==
  /\ save.pc = "done"
  /\ SessionLimit = 0
  /\ save.allImages # <<>>
  /\ save.keyword # <<>>
  /\ save.returned.kind = "denied"
  /\ \E k \in 1..Len(userLimits) : userLimits[k].sizeLimit.v > 0

\* C3: in a batch, a failure on one item (fetch error, missing data, write
\* error) does not abort its siblings: once the loop has started, every
\* item of the batch ends with an outcome of its own.
C3_ItemFailureDoesNotAbortBatch ==
  (save.pc = "done" /\ outcomes # <<>>) =>
    /\ Len(outcomes) = Len(save.allImages)
    /\ \A k \in 1..Len(outcomes) :
         outcomes[k] \in {"saved", "skipped-oversize", "skipped-no-url",
                          "skipped-no-data", "failed"}

\* the exact-mode lookup has run and its listing succeeded
LookedUp ==
  /\ save.keyword # <<>>
  /\ \/ save.pc \in {"mkdir", "fetch", "notice", "write"}
     \/ /\ save.pc = "done"
        /\ save.returned.kind \in {"saved", "fallback", "cancelled", "failed"}
        /\ save.returned.text # <<"readdir">>

C11_FallbackToHolding ==
  (LookedUp /\ saveFailFallback /\ Carriers(imageDir, save.keyword) = <<>>) =>
    /\ ~save.matched
    /\ save.targetPath = TempPath
    /\ \A k \in 1..Len(written) :
         /\ written[k].path = TempPath
         /\ Includes(tempDir.files, written[k].filename)
    /\ \A k \in 1..Len(fsCalls) :
         fsCalls[k].call \in {"mkdir", "writeFile"} => fsCalls[k].path = TempPath
    /\ (written # <<>> => tempDir.exists /\ fsCalls[2] = FsCall("mkdir", TempPath, TRUE))
    /\ save.savedCount = Len(written)
    /\ (save.pc = "done" /\ save.returned.kind # "failed") =>
          save.returned = Message("fallback", Len(written), save.keyword)

\* C11 witness: keyword d, which no Collection carries, with the fallback
\* enabled: the holding path was created and one file was saved there.
C11_Witness ==
  /\ save.pc = "done"
  /\ saveFailFallback
  /\ save.keyword = <<"d">>
  /\ Carriers(imageDir, save.keyword) = <<>>
  /\ save.returned = Message("fallback", 1, <<"d">>)
  /\ tempDir.exists
  /\ Len(tempDir.files) = 1
  /\ Len(written) = 1

\* the deny check is behind the request: the keyword is settled, from the
\* argument or from the trimmed prompt reply
PastDenyCheck ==
  \/ save.pc \in {"readdir", "mkdir", "fetch", "notice", "write"}
  \/ /\ save.pc = "done"
     /\ save.returned.kind \in {"saved", "fallback", "cancelled", "failed"}

\* C12: with the fallback disabled, a request whose keyword (inline or the
\* trimmed prompt reply, whatever its value) matches no Collection is
\* cancelled: no directory is created, no file is written anywhere, and the
\* user is told that matching failed and the save was cancelled.
C12_NoMatchCancels ==
  (~saveFailFallback /\ PastDenyCheck /\ Carriers(imageDir, save.keyword) = <<>>) =>
    /\ written = <<>>
    /\ ~tempDir.exists
    /\ \A k \in 1..Len(fsCalls) : fsCalls[k].call = "readdir"
    /\ (save.pc = "done" /\ save.returned.kind # "failed") =>
          save.returned = Message("cancelled", 0, save.keyword)

\* the last session.prompt of the request resolved without a reply
WaitExpired == save.prompts # <<>> /\ save.prompts[Len(save.prompts)] = "timeout"

\* C13: when either wait (for media items, for a keyword) expires, the save
\* is abandoned with the timeout message of that wait: no prompt is sent a
\* second time, the quota is not evaluated (an identity without upload
\* permission gets the timeout message, not the denial), no directory is
\* listed or created and no file is written.
C13_TimeoutAbandons ==
  WaitExpired =>
    /\ save.pc = "done"
    /\ save.returned =
         (IF save.allImages = <<>> THEN Message("noImage", 0, <<>>)
          ELSE Message("timeout", 0, <<>>))
    /\ notices \in {<<ImagePrompt>>, <<KeywordPrompt>>, <<ImagePrompt, KeywordPrompt>>}
    /\ Len(notices) = Len(save.prompts)
    /\ fsCalls = <<>>
    /\ written = <<>>
    /\ outcomes = <<>>
    /\ ~tempDir.exists

\* C13 witness: images arrived by reply, the wait for the keyword expired,
\* and the identity's limit resolves to 0.
C13_Witness ==
  /\ WaitExpired
  /\ save.prompts = <<"reply", "timeout">>
  /\ save.allImages # <<>>
  /\ SessionLimit = 0
  /\ save.returned.kind = "timeout"

\* 1 MB in bytes
BytesPerMB == 1048576

\* the sizes of the model in MB with two decimals
SizeText(bytes) ==
  CASE bytes = 2097153 -> <<"2",".","0","0">>
    [] bytes = 2621440 -> <<"2",".","5","0">>
    [] OTHER -> <<>>

\* the decimal numerals of the positions and limits below ten
Decimal(n) ==
  IF n \in 0..9 THEN <<<<"0","1","2","3","4","5","6","7","8","9">>[n + 1]>> ELSE <<>>

\* the size check has just decided about the fetched item
SizeChecked == save.pc = "fetch" /\ save'.pc \in {"notice", "write"}

\* the skip notice has just been sent
Skipped == save.pc = "notice" /\ Len(notices') = Len(notices) + 1

SizeCheckStep ==
  /\ SizeChecked =>
       (save'.pc = "notice") = (save'.file.size > save.limit * BytesPerMB)
  /\ Skipped =>
       /\ notices'[Len(notices')] =
            <<"f","i","l","e"," ">> \o Decimal(save.i)
              \o <<" ","s","i","z","e","(">> \o SizeText(save.file.size) \o <<"M","B",")">>
              \o <<" ","l","i","m","i","t","(">> \o Decimal(save.limit) \o <<"M","B",")">>
       /\ written' = written
       /\ save'.savedCount = save.savedCount
       /\ LET later == {j \in (save.i + 1)..Len(save.allImages) : save.allImages[j].hasUrl}
          IN IF later # {}
             THEN save'.pc = "fetch" /\ save'.i = SetMin(later)
             ELSE /\ save'.pc = "done"
                  /\ save'.returned.kind \in {"saved", "fallback"}
                  /\ save'.returned.count = save.savedCount

\* C14: an item longer than limitMB * 1,048,576 bytes is skipped with a
\* notice naming its 1-based position, its size and the limit; an item of
\* exactly that length is accepted; after a skip the rest of the batch is
\* still processed, and no file longer than the threshold is ever written.
C14_SizeCheck ==
  /\ [](\A k \in 1..Len(written) : written[k].bytes <= save.limit * BytesPerMB)
  /\ [][SizeCheckStep]_vars

\* C14 witness: limit 2 MB; item 1 of 2 MB + 1 byte was skipped with its
\* notice, item 2 of exactly 2 MB was saved.
C14_Witness ==
  /\ save.pc = "done"
  /\ save.limit = 2
  /\ outcomes = <<"skipped-oversize", "saved">>
  /\ Len(notices) = 1
  /\ Len(written) = 1
  /\ written[1].item = 2
  /\ written[1].bytes = 2 * BytesPerMB
  /\ save.returned.count = 1


\* C16: saving an item always adds a new file: no fs.writeFile of the write
\* path goes to a path that an earlier write has already filled, whatever
\* the naming template.
C16_AppendOnly ==
  \A j, k \in 1..Len(written) :
    (j < k /\ written[k].path # TempPath) =>
      ~(written[j].path = written[k].path /\ written[j].filename = written[k].filename)

(***************************************************************************)
(* Properties of requests against a changing collection directory.         *)
(***************************************************************************)
\* the read request has just listed the collection directory
ReadListed == rpc = "readdir" /\ rpc' # "readdir" /\ caught' = "none"

\* the save request has just listed the collection directory
SaveListed ==
  /\ save.pc = "readdir" /\ save'.pc # "readdir"
  /\ fsCalls'[Len(fsCalls')].ok

ListingStep ==
  /\ ReadListed =>
       /\ (selectedMatch' # NoSelection) = (PrefixLengths(imageDir, input) # {})
       /\ selectedMatch' # NoSelection =>
            /\ FolderExists(imageDir, selectedMatch'.folderName)
            /\ selectedMatch'.aliasLength = SetMax(PrefixLengths(imageDir, input))
  /\ SaveListed =>
       /\ save'.matched = (Carriers(imageDir, save.keyword) # <<>>)
       /\ save'.matched => save'.folderName = Carriers(imageDir, save.keyword)[1]

\* C17: no index is shared between requests: what a read or a save request
\* resolves is decided by the Collections in the directory at the moment of
\* its own listing -- a Collection present then can be resolved, whenever it
\* was added, and one removed before cannot.
C17_ListingPerRequest == [][ListingStep]_vars

\* C17 witness: Collection y-a-b, absent when the plugin started, serves the
\* request b while z-a, present at the start, is gone.
C17_Witness ==
  /\ rpc = "done"
  /\ input = <<"b">>
  /\ selectedMatch.folderName = NameYAB
  /\ processed = "true"
  /\ Len(sent) = 1
  /\ ~FolderExists(imageDir, NameZA)
  /\ ~FolderExists(BaseListing, NameYAB)

\* C19: every I/O failure of the write path (collection directory
\* unreadable, target directory not creatable, file write failure) ends the
\* operation with the failure message carrying the text of the error; none
\* is passed over or followed by a success message.
C19_WriteFailureReported ==
  \A k \in 1..Len(fsCalls) :
    ~fsCalls[k].ok =>
      /\ k = Len(fsCalls)
      /\ save.pc = "done"
      /\ save.returned.kind = "failed"
      /\ save.returned.text = <<fsCalls[k].call>>

\* C19 witness: the first file of a batch was written, the write of the
\* second failed, and the request ended with the failure message.
C19_Witness ==
  /\ save.pc = "done"
  /\ Len(written) = 1
  /\ fsCalls[Len(fsCalls)] = FsCall("writeFile", save.targetPath, FALSE)
  /\ save.returned.kind = "failed"
  /\ save.returned.text = <<"writeFile">>

\* what the listing step of a request must find for the segments of the
\* Collections listed
SegmentKeyStep ==
  /\ ReadListed =>
       \A k \in 1..Len(imageDir) :
         (imageDir[k].isDirectory /\ input # <<>> /\ IsSegment(imageDir[k].name, input))
           => \E j \in 1..Len(bestMatches') :
                /\ bestMatches'[j].folderName = imageDir[k].name
                /\ bestMatches'[j].alias = input
  /\ SaveListed =>
       \A k \in 1..Len(imageDir) :
         (imageDir[k].isDirectory /\ save.keyword # <<>>
            /\ IsSegment(imageDir[k].name, save.keyword))
           => /\ save'.matched
              /\ IsSegment(save'.folderName, save.keyword)
              /\ (\A i \in 1..k - 1 :
                    ~(imageDir[i].isDirectory /\ IsSegment(imageDir[i].name, save.keyword)))
                   => save'.folderName = imageDir[k].name

\* C21: every delimiter-separated segment of a Collection name p-a1-a2 is
\* a key of that Collection, whatever its position: a write-path lookup of
\* p, of a1 or of a2 finds a Collection carrying it (this one when no
\* earlier entry carries it), and a read-path input equal to any of them
\* has a match for this Collection among the candidates.
C21_EverySegmentIsKey == [][SegmentKeyStep]_vars

\* C21 witness: the write path, asked for b, the last segment of y-a-b,
\* stores into y-a-b.
C21_Witness ==
  /\ save.keyword = <<"b">>
  /\ save.matched
  /\ save.folderName = NameYAB
  /\ written # <<>>
  /\ written[Len(written)].path = CollectionPath(NameYAB)

\* the names of the Collections of dir that carry alias a
CarrierNames(dir, a) ==
  { dir[k].name : k \in { j \in 1..Len(dir) : dir[j].isDirectory /\ IsSegment(dir[j].name, a) } }

\* C24: the collision warning is logged exactly when the selected alias is
\* carried by two or more distinct Collections, never when only one
\* Collection carries it (a Collection a-a, whose name repeats the segment,
\* included), and the names it lists are the distinct colliding Collections.
C24_WarningIffCollision ==
  Resolved =>
    LET carriers == CarrierNames(imageDir, selectedMatch.alias)
    IN /\ (warnings # <<>>) = (Cardinality(carriers) >= 2)
       /\ warnings # <<>> =>
            /\ Len(warnings) = 1
            /\ { warnings[1].folders[k] : k \in 1..Len(warnings[1].folders) } = carriers
            /\ Len(warnings[1].folders) = Cardinality(carriers)

\* the same for directories in which no name repeats a segment
C24_NoRepeatedSegment ==
  (Resolved /\ \A k \in 1..Len(imageDir) :
                 Len(MatchesOfFolder(imageDir[k].name, selectedMatch.alias)) <= 1)
    => LET carriers == CarrierNames(imageDir, selectedMatch.alias)
       IN /\ (warnings # <<>>) = (Cardinality(carriers) >= 2)
          /\ warnings # <<>> =>
               /\ { warnings[1].folders[k] : k \in 1..Len(warnings[1].folders) } = carriers
               /\ Len(warnings[1].folders) = Cardinality(carriers)

\* C25: all matches of the greatest alias length carry one alias -- the
\* prefix of the input of that length -- and one suffix; the candidates the
\* random pick chooses from are exactly the matches on that alias, one per
\* carrying segment; and the count resolved does not depend on the pick.
C25_SingleLongestAlias ==
  Resolved =>
    LET top == SetMax(PrefixLengths(imageDir, input))
        longest == SubSeq(input, 1, top)
    IN /\ \A j \in 1..Len(bestMatches) :
            /\ bestMatches[j].alias = longest
            /\ bestMatches[j].aliasLength = top
            /\ bestMatches[j].suffix = selectedMatch.suffix
            /\ count = ParseCount(bestMatches[j].suffix, maxout)
       /\ { bestMatches[j].folderName : j \in 1..Len(bestMatches) }
            = CarrierNames(imageDir, longest)
       /\ \E j \in 1..Len(bestMatches) : bestMatches[j] = selectedMatch

\* C25 witness: two Collections carry the longest alias a of the input a2
\* and the count 2 comes from the common suffix.
C25_Witness ==
  /\ Resolved
  /\ input = <<"a","2">>
  /\ Len(bestMatches) = 2
  /\ bestMatches[1].folderName # bestMatches[2].folderName
  /\ selectedMatch = bestMatches[2]
  /\ count = Unit * 2

\* C26: the middleware hands every inbound message on to the next handler
\* exactly once, and only after the read request of that message has
\* finished, whatever its outcome (empty input, no match, empty Collection,
\* items sent, I/O or send failure).
C26_NextExactlyOnce ==
  /\ [](rpc = "done" => nextCalls = 1)
  /\ [](rpc # "done" => nextCalls = 0)
  /\ (rpc # "idle") ~> (rpc = "done")

\* C26 witness: a send failed after an item had been delivered, and the
\* message was still handed on once.
C26_Witness ==
  /\ rpc = "done"
  /\ caught = "send"
  /\ Len(sent) >= 1
  /\ nextCalls = 1

\* the media items the request has sent
MediaSent == SelectSeq(sent, LAMBDA e : e.kind # "text")

\* C27: one read request sends at most maxout media items -- none when
\* maxout is 0 or negative -- however large the count in the suffix.
C27_AtMostMaxout ==
  Unit * Len(MediaSent) <= (IF maxout > 0 THEN maxout ELSE 0)

\* the same for a maxout that is a whole number
C27_WholeMaxout ==
  maxout % Unit = 0 => Unit * Len(MediaSent) <= (IF maxout > 0 THEN maxout ELSE 0)

\* C28: on a success message the count reported is the number of files the
\* batch wrote, which is the number of its items that had a URL, returned
\* data and did not exceed the size limit; it never exceeds the batch size.
C28_ReportedCount ==
  (save.pc = "done" /\ save.returned.kind \in {"saved", "fallback"}) =>
    LET n == save.returned.count
        saved == { k \in 1..Len(outcomes) : outcomes[k] = "saved" }
        writes == { k \in 1..Len(fsCalls) : fsCalls[k].call = "writeFile" /\ fsCalls[k].ok }
    IN /\ n = Len(written)
       /\ n = Cardinality(writes)
       /\ n = Cardinality(saved)
       /\ n <= Len(save.allImages)
       /\ Len(outcomes) = Len(save.allImages)
       /\ { written[k].item : k \in 1..Len(written) } = saved
       /\ \A k \in 1..Len(written) :
            /\ save.allImages[written[k].item].hasUrl
            /\ written[k].bytes <= save.limit * 1024 * 1024
       /\ \A k \in (1..Len(outcomes)) \ saved :
            /\ outcomes[k] \in {"skipped-no-url", "skipped-no-data", "skipped-oversize"}
            /\ (outcomes[k] = "skipped-no-url") = ~save.allImages[k].hasUrl

\* C28 witness: of two items, one saved to the holding area and one without
\* data, the message reports one file.
C28_Witness ==
  /\ save.pc = "done"
  /\ save.returned.kind = "fallback"
  /\ save.returned.count = 1
  /\ outcomes = <<"saved", "skipped-no-data">>
  /\ Len(written) = 1

\* some Collection of the listing has an empty segment in its name
HasEmptySegment ==
  \E k \in 1..Len(imageDir) : imageDir[k].isDirectory /\ IsSegment(imageDir[k].name, <<>>)

\* the request has listed the collection directory
PastListing == rpc \notin {"idle", "readdir"} /\ input # <<>> /\ caught # "readdir"

\* C29: a Collection whose name has an empty segment matches every
\* non-empty input, with alias length 0; that match is selected only when no
\* non-empty alias of any Collection is a prefix of the input, and then the
\* whole trimmed input is the suffix.
C29_EmptySegmentMatchesAll ==
  (HasEmptySegment /\ PastListing) =>
    /\ Resolved
    /\ (selectedMatch.aliasLength = 0) = (PrefixLengths(imageDir, input) \ {0} = {})
    /\ selectedMatch.aliasLength = 0 =>
         /\ selectedMatch.alias = <<>>
         /\ IsSegment(selectedMatch.folderName, <<>>)
         /\ selectedMatch.suffix = input

\* C29 witness: the input 7 starts with no alias of a-a or b-; b- serves it
\* through its empty segment, with 7 as the suffix.
C29_Witness ==
  /\ rpc = "done"
  /\ processed = "true"
  /\ input = <<"7">>
  /\ selectedMatch.folderName = NameBEmpty
  /\ selectedMatch.aliasLength = 0
  /\ selectedMatch.suffix = <<"7">>
  /\ Len(MediaSent) >= 1

(***************************************************************************)
(* Properties of the naming of saved files.                                *)
(***************************************************************************)
\* C22: the sanitized file name holds no reserved character (a control
\* character, / \ : * ? " < > |), and sanitizing it again changes nothing.
C22_SanitizedName ==
  render.pc = "rendered" =>
    /\ \A k \in 1..Len(render.filename) :
         render.filename[k] \notin {"\n", "\t", "/", "\\", ":", "*", "?", "\"", "<", ">", "|"}
    /\ Sanitize(render.filename) = render.filename

\* C22 witness: a name with several reserved characters, among them a
\* control character, was sanitized.
C22_Witness ==
  /\ render.pc = "rendered"
  /\ \E j, k \in 1..Len(render.substituted) :
       /\ j < k
       /\ render.substituted[j] = "/"
       /\ render.substituted[k] = "\n"
       /\ render.filename[j] = "_"
       /\ render.filename[k] = "_"

\* the text of a context value, written out
ValueText(r, name) ==
  CASE name = <<"u","s","e","r","I","d">> ->
         IF r.session.userId = <<>> THEN <<"u","n","k","n","o","w","n">> ELSE r.session.userId
    [] name = <<"u","s","e","r","n","a","m","e">> ->
         IF r.session.username = <<>> THEN <<"u","n","k","n","o","w","n">>
         ELSE r.session.username
    [] name = <<"t","i","m","e","s","t","a","m","p">> ->
         IF r.timestamp = 0 THEN <<"0">> ELSE <<"1","0","0","0">>
    [] name = <<"d","a","t","e">> -> <<"1","9","7","0","-","0","1","-","0","1">>
    [] name = <<"t","i","m","e">> ->
         IF r.timestamp = 0 THEN <<"0","0","-","0","0","-","0","0">>
         ELSE <<"0","0","-","0","0","-","0","1">>
    [] name = <<"i","n","d","e","x">> -> Decimal(r.index)
    [] name = <<"e","x","t">> -> r.ext
    [] name = <<"g","u","i","l","d","I","d">> ->
         IF r.session.guildId = <<>> THEN <<"p","r","i","v","a","t","e">>
         ELSE r.session.guildId
    [] name = <<"c","h","a","n","n","e","l","I","d">> ->
         IF r.session.channelId = <<>> THEN <<"u","n","k","n","o","w","n">>
         ELSE r.session.channelId

KnownPlaceholders ==
  { <<"u","s","e","r","I","d">>, <<"u","s","e","r","n","a","m","e">>,
    <<"t","i","m","e","s","t","a","m","p">>, <<"d","a","t","e">>, <<"t","i","m","e">>,
    <<"i","n","d","e","x">>, <<"e","x","t">>, <<"g","u","i","l","d","I","d">>,
    <<"c","h","a","n","n","e","l","I","d">> }

\* the known placeholder, if any, that the text starts with
PlaceholderAt(text) ==
  { name \in KnownPlaceholders :
      /\ Len(text) >= Len(name) + 3
      /\ SubSeq(text, 1, Len(name) + 3) = <<"$", "{">> \o name \o <<"}">> }

\* the template with each occurrence of a known placeholder replaced by the
\* value, in one pass over the template
RECURSIVE OnePass(_, _)
OnePass(text, r) ==
  IF text = <<>> THEN <<>>
  ELSE IF PlaceholderAt(text) # {}
       THEN LET name == CHOOSE n \in PlaceholderAt(text) : TRUE
            IN ValueText(r, name) \o OnePass(SubSeq(text, Len(name) + 4, Len(text)), r)
  ELSE <<text[1]>> \o OnePass(Tail(text), r)

\* C23: before sanitization the rendered name is the template with every
\* occurrence of each of the nine placeholders replaced by exactly its
\* context value; all other text -- unknown placeholders, and the text of
\* the substituted values themselves -- is unchanged.
C23_SubstitutionExact ==
  render.pc = "rendered" => render.substituted = OnePass(render.template, render)

\* the same for context values that hold no dollar sign
C23_PlainValues ==
  (render.pc = "rendered" /\ \A k \in 1..Len(render.session.username) :
                              render.session.username[k] # "$")
    => render.substituted = OnePass(render.template, render)

=============================================================================
